---- MODULE Spec2Model ----
(***************************************************************************)
(* The session-addressed transport multiplexer of axys-mcp-lite            *)
(* (startHttpServer in the compiled index.js, main in http-server.ts):     *)
(* the session table `transports`, the POST / GET / DELETE handlers of     *)
(* /mcp, the transport callbacks onsessioninitialized and onclose, and     *)
(* the SIGINT handler.                                                     *)
(*                                                                         *)
(* The StreamableHTTPServerTransport and express are libraries: what a     *)
(* transport does with a request handed to it is a nondeterministic        *)
(* outcome (it answers, it rejects, it throws before or after the          *)
(* response headers were sent).  Handlers are async functions on one       *)
(* event loop: every `await` ends a step, and the steps of different       *)
(* requests interleave.                                                    *)
(*                                                                         *)
(* The CallToolRequestSchema handler of a server instance is modelled on   *)
(* its own (SpecTools): one call, its arguments, the request it sends      *)
(* upstream and its result, in the entry points that differ.               *)
(* A tool call that came in on a session, in flight while that session's   *)
(* transport closes, is SpecUpstream.                                      *)
(*                                                                         *)
(* Startup (main, startStdioServer, startHttpServer) is SpecStartup; the   *)
(* resolution of a request's configuration and the client cache            *)
(* (parseConfigFromQuery, getMcpClient) are SpecConfig; the discovery      *)
(* endpoint among POST, DELETE and disconnects is SpecDiscovery.           *)
(*                                                                         *)
(* The requests of /mcp with their query strings, the server instance of   *)
(* each session and the client it captured are SpecSessions; the upstream  *)
(* client (GptMcpClient: aiSearch, validateConnection, handleError) is     *)
(* SpecClient.                                                             *)
(***************************************************************************)
EXTENDS Integers, Sequences, FiniteSets, Bags, TLC

\* ---------------------------------------------------------------- bounds
\* Requests whose handler is suspended at an await at the same time.
MaxInFlight == 2
\* Transports constructed (initializing POSTs accepted by the init branch).
MaxTransports == 2
\* Clients held by the client cache.
MaxClients == 2
\* SIGINT signals received.
MaxSigints == 2

\* ------------------------------------------------------- header encoding
\* Values of req.headers['mcp-session-id'].  k >= 1 is the k-th identifier
\* randomUUID() produced; the others are the values a client can send
\* without having been given an identifier.
NoHeader == 0
EmptyHeader == -1
UnknownHeader == -2
ConstructorHeader == -3

\* What a lookup transports[sessionId] can evaluate to besides a transport
\* (transports are numbered from 1 in the order they were constructed).
Undefined == 0
ProtoObject == -1

\* `const transports = {}` is a plain object: a property name of
\* Object.prototype ('constructor') is found through the prototype chain.
ProtoKeys == {ConstructorHeader}

VARIABLES
    transports,   \* the session table: identifier -> transport
    tr,           \* the transports constructed so far, by number
    uuids,        \* identifiers randomUUID() has produced
    reqs,         \* the requests whose handler is suspended at an await (a bag)
    last,         \* the request whose handler ended in the step just taken
    closeEv,      \* the onclose call of the step just taken
    sig,          \* the runs of the SIGINT handler, in the order they started
    proc,         \* "running", "exit0" (process.exit(0)) or "crashed"
    insertLog,    \* history: the identifiers inserted into the table, in order
    removals,     \* history: identifier -> entries deleted from the table
    call,         \* one tool call at a server instance: inputs, position, result
    cfg           \* startup, the client cache and configuration resolution

\* The parts of cfg.
\* process.env and process.stdin.isTTY, as the process was started
env == cfg.env
\* main(): its position, the exit code, probes sent, stdio connected
boot == cfg.boot
\* the client cache: configKey -> client
mcpClients == cfg.mcpClients
\* the client built from the environment (0: null)
defaultMcpClient == cfg.defaultMcpClient
\* the GptMcpClient instances constructed so far, by number
clients == cfg.clients
\* the configuration resolution of the step just taken
resolved == cfg.resolved
\* history: (host, key, client) of every resolution with a key
served == cfg.served
\* the server instances created by createMcpServer: transport -> the client
\* its closure captured (0: null)
servers == cfg.servers

\* The state of the HTTP server.
httpVars == <<transports, tr, uuids, reqs, last, closeEv, sig, proc, insertLog, removals>>

\* The state of startup, of the client cache and of configuration resolution.
configVars == <<cfg>>

vars == <<httpVars, call, configVars>>

\* --------------------------------------------------------------- helpers
\* if (sessionId ...): a missing header and the empty string are falsy.
HeaderTruthy(h) == h # NoHeader /\ h # EmptyHeader

\* transports[sessionId] on the plain object.
Lookup(table, h) ==
    IF h \in DOMAIN table THEN table[h]
    ELSE IF h \in ProtoKeys THEN ProtoObject
    ELSE Undefined

Truthy(v) == v # Undefined

\* transports[newSessionId] = transport
TableSet(table, k, t) ==
    [x \in DOMAIN table \cup {k} |-> IF x = k THEN t ELSE table[x]]

\* delete transports[sid]
TableDelete(table, k) == [x \in DOMAIN table \ {k} |-> table[x]]

\* A generator that repeats itself (the mutant of randomUUID).
randomUUIDRepeats(n) == 1

\* sessionIdGenerator: () => randomUUID(): an identifier never produced before.
\* n identifiers were produced so far.
randomUUID(n) == n + 1

\* The headers a client can send: none, the empty string, a string the
\* server never produced, 'constructor', or an identifier it has seen.
Headers == {NoHeader, EmptyHeader, UnknownHeader, ConstructorHeader} \cup (1..uuids)

NoResp == << >>

\* res.status(400).json({jsonrpc:'2.0', error:{code:-32000, message:...}, id:null})
BadRequestResp ==
    [status |-> 400, kind |-> "jsonrpc", code |-> -32000,
     message |-> "Bad Request: No valid session ID provided", id |-> "null",
     by |-> "mux"]

\* res.status(500).json({jsonrpc:'2.0', error:{code:-32603, message:...}, id:null})
InternalErrorResp ==
    [status |-> 500, kind |-> "jsonrpc", code |-> -32603,
     message |-> "Internal server error", id |-> "null", by |-> "mux"]

\* res.status(400).send('Invalid or missing session ID')
InvalidSessionResp ==
    [status |-> 400, kind |-> "text", code |-> 0,
     message |-> "Invalid or missing session ID", id |-> "", by |-> "mux"]

\* A response the transport itself started (its headers are sent).
TransportResp(st) ==
    [status |-> st, kind |-> "transport", code |-> 0, message |-> "", id |-> "",
     by |-> "transport"]

\* express' final error handler, where the build has one for rejected handlers.
ExpressErrorResp ==
    [status |-> 500, kind |-> "html", code |-> 0, message |-> "", id |-> "",
     by |-> "express"]

\* res.headersSent
headersSent(r) == Len(r.resp) > 0

\* An exception is raised in the handler of r: before any response header
\* was sent ("early") or after ("late").
Throw(r) == [r EXCEPT !.threw = IF headersSent(r) THEN "late" ELSE "early"]

\* A catch block that answers without looking at res.headersSent (mutant).
PostCatchAlwaysAnswers(r) ==
    [r EXCEPT !.pc = "done", !.resp = Append(@, InternalErrorResp)]

\* The catch block of app.post('/mcp').
PostCatch(r) ==
    IF ~headersSent(r)
    THEN [r EXCEPT !.pc = "done", !.resp = Append(@, InternalErrorResp)]
    ELSE [r EXCEPT !.pc = "done"]

\* A close callback that leaves the entry in the table (mutant).
oncloseKeepsEntry(table, sid) == table

\* A close callback that deletes the entry registered last instead of the
\* entry of its own transport (mutant).
oncloseDeletesLatest(table, sid) ==
    IF DOMAIN table = {} THEN table
    ELSE TableDelete(table, CHOOSE k \in DOMAIN table : \A j \in DOMAIN table : j <= k)

\* transport.onclose: the table after the callback ran for a transport whose
\* sessionId field is sid (Undefined when none was assigned).
onclose(table, sid) ==
    IF sid # Undefined /\ Truthy(Lookup(table, sid))
    THEN TableDelete(table, sid)
    ELSE table

\* The history of deletions after onclose ran.
oncloseRemovals(table, sid, rem) ==
    IF sid \in DOMAIN table /\ sid \notin DOMAIN onclose(table, sid)
    THEN [rem EXCEPT ![sid] = @ + 1]
    ELSE rem

\* A callback that only logs and registers nothing (mutant).
onsessioninitializedOnlyLogs(table, newSessionId, t) == table

\* The callback as if it rebuilt the table around the new transport (mutant).
onsessioninitializedOverwrites(table, newSessionId, t) ==
    [k \in DOMAIN table \cup {newSessionId} |-> t]

\* onsessioninitialized: transports[newSessionId] = transport
onsessioninitialized(table, newSessionId, t) == TableSet(table, newSessionId, t)

NewTransport == [sessionId |-> Undefined, closedBy |-> "none"]

\* The transport has reported closure (its onclose callback has run).
\* closedBy: "none" open, "failed" open after a close() that threw, "DELETE"
\* closed while handling a DELETE, "other" closed otherwise.
Closed(t) == tr[t].closedBy \notin {"none", "failed"}

NewReq(m, h, init) ==
    [method |-> m, sid |-> h, init |-> init, pc |-> "done",
     transport |-> Undefined, created |-> Undefined, inserted |-> 0,
     hit |-> IF h \in DOMAIN transports THEN "own"
             ELSE IF Truthy(Lookup(transports, h)) THEN "proto" ELSE "miss",
     stale |-> \E t \in 1..Len(tr) :
                  tr[t].sessionId = h /\ h >= 1 /\ tr[t].closedBy = "DELETE",
     threw |-> "no", resp |-> NoResp]

\* No handler ended in the step just taken.
NoLast == [method |-> "none"]

\* No onclose callback ran in the step just taken.
NoClose == [t |-> Undefined]

\* The process is alive and the event loop is between two handlers: what the
\* step before ended or closed has been observed.
Running == proc = "running" /\ last = NoLast /\ closeEv = NoClose

Settled(r) == r.pc \in {"done", "unhandled"}

\* Arrival as if no request were taken while another is suspended (mutant).
ArriveOneAtATime(r) ==
    IF Settled(r)
    THEN /\ last' = r
         /\ UNCHANGED reqs
    ELSE /\ reqs = EmptyBag
         /\ reqs' = reqs (+) SetToBag({r})
         /\ last' = NoLast

\* A request arrives and its handler runs to its first await, or to its end.
Arrive(r) ==
    IF Settled(r)
    THEN /\ last' = r
         /\ UNCHANGED reqs
    ELSE /\ BagCardinality(reqs) < MaxInFlight
         /\ reqs' = reqs (+) SetToBag({r})
         /\ last' = NoLast

\* The handler of the suspended request q resumes and reaches r.
Resume(q, r) ==
    IF Settled(r)
    THEN /\ last' = r
         /\ reqs' = reqs (-) SetToBag({q})
    ELSE /\ reqs' = (reqs (-) SetToBag({q})) (+) SetToBag({r})
         /\ last' = NoLast

\* The requests suspended at an await.
InFlight == BagToSet(reqs)

\* No SIGINT was received: no run of the handler.  Of a run, keys are the
\* keys its for-in loop has still to visit and start is the number of
\* identifiers assigned before it started.
NoShutdown == << >>

\* ------------------------------------------------------------------ Init
InitHttp ==
    /\ transports = << >>
    /\ tr = << >>
    /\ uuids = 0
    /\ reqs = EmptyBag
    /\ last = NoLast
    /\ closeEv = NoClose
    /\ sig = NoShutdown
    /\ proc = "running"
    /\ insertLog = << >>
    /\ removals = [k \in {} |-> 0]

\* ------------------------------------------------- branch conditions of POST
\* if (sessionId && transports[sessionId])
ReuseBranch(table, h) == HeaderTruthy(h) /\ Truthy(Lookup(table, h))

\* The init branch without the isInitializeRequest test (mutant).
InitBranchAnyBody(h, init) == ~HeaderTruthy(h)

\* else if (!sessionId && isInitializeRequest(req.body))
InitBranch(h, init) == ~HeaderTruthy(h) /\ init

\* if (!sessionId || !transports[sessionId]) of GET and DELETE
InvalidSession(table, h) == ~HeaderTruthy(h) \/ ~Truthy(Lookup(table, h))

\* A rejected promise of an async handler that has no try/catch: express 4
\* leaves it unhandled (the process dies), express 5 answers through its
\* error handler.  Which one depends on the build.
Unhandled(r, crash) ==
    IF crash \/ headersSent(r)
    THEN [r EXCEPT !.pc = "unhandled"]
    ELSE [r EXCEPT !.pc = "unhandled", !.resp = Append(@, ExpressErrorResp)]

\* The reuse branch as if the message waited for a later turn before it is
\* handed to the transport (mutant).
DelegateQueued(r, v) == [r EXCEPT !.transport = v, !.pc = "connect"]

\* transport = transports[sessionId]; ... transport.handleRequest(req, res,
\* req.body) is called in the turn the request arrived in.
Delegate(r, v) == [r EXCEPT !.transport = v, !.pc = "inTransport"]

\* A POST of an established session whose handler is suspended at
\* await transport.handleRequest(req, res, req.body), whatever its body:
\* the reuse branch is taken on the header alone.
HeldInTransport(q) ==
    /\ q.method = "POST"
    /\ q.pc = "inTransport"
    /\ q.created = Undefined

\* ---------------------------------------------------------------- POST /mcp
\* app.post('/mcp') up to its first await.
PostMcp(h, init) ==
    /\ Running
    /\ closeEv' = NoClose
    /\ LET r0 == NewReq("POST", h, init)
           v == Lookup(transports, h)
           t == Len(tr) + 1
       IN IF ReuseBranch(transports, h)
          THEN /\ Arrive(IF v = ProtoObject
                         THEN PostCatch(Throw([r0 EXCEPT !.transport = v]))
                         ELSE Delegate(r0, v))
               /\ UNCHANGED tr
          ELSE IF InitBranch(h, init)
          THEN /\ Len(tr) < MaxTransports
               /\ tr' = Append(tr, NewTransport)
               /\ Arrive([r0 EXCEPT !.transport = t, !.created = t,
                                    !.pc = "connect"])
          ELSE /\ Arrive([r0 EXCEPT !.resp = <<BadRequestResp>>])
               /\ UNCHANGED tr
    /\ UNCHANGED <<transports, uuids, sig, proc, insertLog, removals>>

\* await server.connect(transport) settles: resolved, the request is handed
\* to the new transport; rejected, the catch block runs.
PostConnect(q, ok) ==
    /\ Running
    /\ closeEv' = NoClose
    /\ q.pc = "connect"
    /\ Resume(q, IF ok THEN [q EXCEPT !.pc = "inTransport"]
                 ELSE PostCatch(Throw(q)))
    /\ UNCHANGED <<transports, tr, uuids, sig, proc, insertLog, removals>>

\* The transport given the initialization message of its own request: it
\* draws the identifier and calls onsessioninitialized.
SessionInit(t) ==
    LET newSessionId == randomUUID(uuids)
    IN /\ uuids' = uuids + 1
       /\ tr' = [tr EXCEPT ![t].sessionId = newSessionId]
       /\ transports' = onsessioninitialized(transports, newSessionId, t)
       /\ insertLog' = Append(insertLog, newSessionId)
       /\ removals' = IF newSessionId \in DOMAIN removals THEN removals
                      ELSE removals @@ (newSessionId :> 0)

\* A transport that takes any message for its initialization (mutant).
FreshAlways(r, t) == TRUE

\* The transport t is handed the initialization message it was created for
\* and has no identifier yet.
Fresh(r, t) == r.created = t /\ tr[t].sessionId = Undefined

\* await transport.handleRequest(req, res, req.body) of a POST settles.
\* o: "ok" answered, "reject" the transport answered with its own error,
\* "throw" it threw before any header, "lateThrow" it threw after headers.
TransportHandlePost(q, o) ==
    /\ Running
    /\ closeEv' = NoClose
    /\ q.pc = "inTransport"
    /\ q.method = "POST"
    /\ LET r == q
           t == r.transport
           fresh == Fresh(r, t)
           accepts == fresh /\ o \in {"ok", "lateThrow"}
           r1 == [r EXCEPT !.inserted = IF accepts THEN @ + 1 ELSE @]
       IN /\ IF accepts
             THEN SessionInit(t)
             ELSE UNCHANGED <<transports, tr, uuids, insertLog, removals>>
          /\ Resume(q,
                CASE o = "ok" -> [r1 EXCEPT !.pc = "done",
                                            !.resp = Append(@, TransportResp(200))]
                  [] o = "reject" -> [r1 EXCEPT !.pc = "done",
                                            !.resp = Append(@, TransportResp(400))]
                  [] o = "throw" -> PostCatch(Throw(r1))
                  [] OTHER -> PostCatch(Throw([r1 EXCEPT
                                            !.resp = Append(@, TransportResp(200))])))
    /\ UNCHANGED <<sig, proc>>

\* ----------------------------------------------------------------- GET /mcp
GetMcp(h, crash) ==
    /\ Running
    /\ closeEv' = NoClose
    /\ LET r0 == NewReq("GET", h, FALSE)
           v == Lookup(transports, h)
       IN IF InvalidSession(transports, h)
          THEN /\ Arrive([r0 EXCEPT !.resp = <<InvalidSessionResp>>])
               /\ UNCHANGED proc
          ELSE IF v = ProtoObject
          THEN /\ Arrive(Unhandled(Throw([r0 EXCEPT !.transport = v]), crash))
               /\ proc' = IF crash THEN "crashed" ELSE proc
          ELSE /\ Arrive([r0 EXCEPT !.transport = v, !.pc = "inTransport"])
               /\ UNCHANGED proc
    /\ UNCHANGED <<transports, tr, uuids, sig, insertLog, removals>>

\* await transport.handleRequest(req, res) of a GET settles.
TransportHandleGet(q, o, crash) ==
    /\ Running
    /\ closeEv' = NoClose
    /\ q.pc = "inTransport"
    /\ q.method = "GET"
    /\ Resume(q,
          CASE o = "ok" -> [q EXCEPT !.pc = "done",
                                           !.resp = Append(@, TransportResp(200))]
            [] o = "reject" -> [q EXCEPT !.pc = "done",
                                           !.resp = Append(@, TransportResp(400))]
            [] OTHER -> Unhandled(Throw(q), crash))
    /\ proc' = IF o = "throw" /\ crash THEN "crashed" ELSE proc
    /\ UNCHANGED <<transports, tr, uuids, sig, insertLog, removals>>

\* ------------------------------------------------------------ transport close
\* The transport t runs its close sequence and invokes transport.onclose.
CloseTransportFrom(table, rem, t, by) ==
    LET sid == tr[t].sessionId
    IN /\ transports' = onclose(table, sid)
       /\ removals' = oncloseRemovals(table, sid, rem)
       /\ tr' = [tr EXCEPT ![t].closedBy = IF Closed(t) THEN @ ELSE by]
       /\ closeEv' = [t |-> t, sid |-> sid, again |-> Closed(t),
                      before |-> table]

CloseTransport(t, by) == CloseTransportFrom(transports, removals, t, by)

\* -------------------------------------------------------------- DELETE /mcp
DeleteMcp(h, crash) ==
    /\ Running
    /\ closeEv' = NoClose
    /\ LET r0 == NewReq("DELETE", h, FALSE)
           v == Lookup(transports, h)
       IN IF InvalidSession(transports, h)
          THEN /\ Arrive([r0 EXCEPT !.resp = <<InvalidSessionResp>>])
               /\ UNCHANGED proc
          ELSE IF v = ProtoObject
          THEN /\ Arrive(Unhandled(Throw([r0 EXCEPT !.transport = v]), crash))
               /\ proc' = IF crash THEN "crashed" ELSE proc
          ELSE /\ Arrive([r0 EXCEPT !.transport = v, !.pc = "inTransport"])
               /\ UNCHANGED proc
    /\ UNCHANGED <<transports, tr, uuids, sig, insertLog, removals>>

\* await transport.handleRequest(req, res) of a DELETE settles: "ok" the
\* transport closed itself (onclose ran) and answered, "reject" it answered
\* with its own error and stayed open, "throw" it threw.
TransportHandleDelete(q, o, crash) ==
    /\ Running
    /\ q.pc = "inTransport"
    /\ q.method = "DELETE"
    /\ IF o = "ok"
       THEN CloseTransport(q.transport, "DELETE")
       ELSE /\ closeEv' = NoClose
            /\ UNCHANGED <<transports, tr, removals>>
    /\ Resume(q,
          CASE o = "ok" -> [q EXCEPT !.pc = "done",
                                           !.resp = Append(@, TransportResp(200))]
            [] o = "reject" -> [q EXCEPT !.pc = "done",
                                           !.resp = Append(@, TransportResp(400))]
            [] OTHER -> Unhandled(Throw(q), crash))
    /\ proc' = IF o = "throw" /\ crash THEN "crashed" ELSE proc
    /\ UNCHANGED <<uuids, sig, insertLog>>

\* A transport reports closure on its own (the client went away): the same
\* onclose callback runs, and finds no identifier when the transport has not
\* been given its initialization message yet.
Disconnect(t) ==
    /\ Running
    /\ CloseTransport(t, "other")
    /\ last' = NoLast
    /\ UNCHANGED <<uuids, reqs, sig, proc, insertLog>>

\* ------------------------------------------------------------------- SIGINT
\* for (const sessionId in transports): the keys in insertion order.
ForInKeys(table) == SelectSeq(insertLog, LAMBDA k : k \in DOMAIN table)

\* A key deleted before the loop reaches it is not visited; a key added
\* after the loop started is not among its keys.
ForInRest(keys, table) == SelectSeq(keys, LAMBDA k : k \in DOMAIN table)

\* The loop as if an error of close() ended it (mutant).
catchCloseErrorAborts(keys) == << >>

\* catch (error) { console.error(...) }: the loop goes on with the next key.
catchCloseError(keys) == Tail(keys)

\* One run of the SIGINT handler.  pc: "closing" / "failing" it awaits a
\* close() that will resolve / reject, "exited" it called process.exit.
Handler(pc, keys, start) == [pc |-> pc, keys |-> keys, start |-> start]

\* The runs of the handler with run i (a new one when i = Len(sig) + 1) at h.
SigPut(i, h) ==
    IF i = Len(sig) + 1 THEN Append(sig, h) ELSE [sig EXCEPT ![i] = h]

\* process.exit(0), reached with the table and removal counts given.
ShutdownExit(i, table, rem, start) ==
    /\ sig' = SigPut(i, Handler("exited", << >>, start))
    /\ proc' = "exit0"
    /\ transports' = table
    /\ removals' = rem
    /\ closeEv' = NoClose
    /\ UNCHANGED tr

\* transports[sessionId].close() is called for the first of ks and the
\* handler suspends at the await.  ok: close() runs onclose and resolves;
\* otherwise it leaves the transport open and rejects.
ShutdownClose(i, ks, table, rem, start, ok) ==
    LET k == Head(ks)
        t == table[k]
    IN /\ IF ok
          THEN /\ CloseTransportFrom(table, rem, t, "other")
               /\ sig' = SigPut(i, Handler("closing", ks, start))
          ELSE /\ transports' = table
               /\ removals' = rem
               /\ tr' = [tr EXCEPT ![t].closedBy = "failed"]
               /\ closeEv' = NoClose
               /\ sig' = SigPut(i, Handler("failing", ks, start))
       /\ UNCHANGED proc

\* The loop runs on, without suspending, to the next close() or, with no
\* key left, to process.exit(0).
ShutdownLoop(i, keys, table, rem, start, ok) ==
    LET ks == ForInRest(keys, table)
    IN IF ks = << >>
       THEN ShutdownExit(i, table, rem, start)
       ELSE ShutdownClose(i, ks, table, rem, start, ok)

\* process.on('SIGINT', ...): every signal starts a run of the handler,
\* also while an earlier run awaits a close(); the run goes to its first
\* await or to its end.
Sigint(ok) ==
    /\ Running
    /\ Len(sig) < MaxSigints
    /\ ShutdownLoop(Len(sig) + 1, ForInKeys(transports), transports, removals,
                    uuids, ok)
    /\ last' = NoLast
    /\ UNCHANGED <<uuids, reqs, insertLog>>

\* The close() that run i awaited resolved: delete transports[sessionId],
\* then the loop runs on.
ShutdownDelete(i, ok) ==
    /\ Running
    /\ sig[i].pc = "closing"
    /\ LET k == Head(sig[i].keys)
           rem == IF k \in DOMAIN transports
                  THEN [removals EXCEPT ![k] = @ + 1] ELSE removals
       IN ShutdownLoop(i, Tail(sig[i].keys), TableDelete(transports, k), rem,
                       sig[i].start, ok)
    /\ last' = NoLast
    /\ UNCHANGED <<uuids, reqs, insertLog>>

\* The close() that run i awaited rejected: the catch block logs, the entry
\* stays, then the loop runs on.
ShutdownCatch(i, ok) ==
    /\ Running
    /\ sig[i].pc = "failing"
    /\ ShutdownLoop(i, catchCloseError(sig[i].keys), transports, removals,
                    sig[i].start, ok)
    /\ last' = NoLast
    /\ UNCHANGED <<uuids, reqs, insertLog>>

\* ------------------------------------------------ /.well-known/mcp-config
\* A schema that asks for the key alone (mutant).
mcpConfigRequiredKeyOnly == {"MCP_KEY"}

\* "required": ["AXYS_API_HOST", "MCP_KEY"]
mcpConfigRequired == {"AXYS_API_HOST", "MCP_KEY"}

\* res.json({ "$schema": ..., "type": "object", "required": [...],
\* "properties": { "AXYS_API_HOST": {...}, "MCP_KEY": {...} } })
McpConfigResp ==
    [status |-> 200, kind |-> "schema", code |-> 0, message |-> "object",
     id |-> "/.well-known/mcp-config", by |-> "mux",
     required |-> mcpConfigRequired,
     properties |-> {"AXYS_API_HOST", "MCP_KEY"}]

\* app.get('/.well-known/mcp-config'): answered in the turn it arrives in.
WellKnown ==
    /\ Running
    /\ closeEv' = NoClose
    /\ Arrive([NewReq("GET /.well-known/mcp-config", NoHeader, FALSE)
                  EXCEPT !.resp = <<McpConfigResp>>])
    /\ UNCHANGED <<transports, tr, uuids, sig, proc, insertLog, removals>>

\* The turn of the event loop that ended a handler or ran onclose is over.
Turn ==
    /\ proc = "running"
    /\ last # NoLast \/ closeEv # NoClose
    /\ last' = NoLast
    /\ closeEv' = NoClose
    /\ UNCHANGED <<transports, tr, uuids, reqs, sig, proc, insertLog, removals>>

\* ---------------------------------------------------------------- tool calls
\* The CallToolRequestSchema handler of one server instance, in the three
\* entry points that differ: "index" (compiled index.js, and http-server.ts:
\* the client may be unbound), "smithery" (smithery-index.ts: the client is
\* always bound), "mcpserver" (src/index.ts: McpServer.registerTool with zod
\* input schemas, the client is always bound).
Variants == {"index", "smithery", "mcpserver"}

ToolNames == {"ai_search_structured", "ai_search_unstructured",
              "validate_connection"}

\* A name that is none of the tools.
OtherNames == {"list_users"}

\* An object without properties.
EmptyObject == [f \in {} |-> f]

\* An object with the property f when m = <<v>>, without it when m = << >>.
Opt(f, m) == IF m = << >> THEN EmptyObject ELSE (f :> m[1])

\* request.params.arguments: each property present or not.
ArgsOf(q, si, fo) ==
    Opt("query", q) @@ Opt("searchIndices", si) @@ Opt("fileOnly", fo)

Arguments ==
    {ArgsOf(q, si, fo) : q \in {<< >>, <<"">>, <<"deployment">>},
                         si \in {<< >>, <<"">>, <<"video">>},
                         fo \in {<< >>, <<TRUE>>, <<FALSE>>}}

Has(args, f) == f \in DOMAIN args

\* if (!query): undefined and the empty string are falsy.
QueryFalsy(args) == ~Has(args, "query") \/ args.query = ""

\* The zod object of the mcpserver entry point: query: z.string(),
\* searchIndices: z.string().optional(), fileOnly: z.boolean().default(false).
ZodValid(name, args) == name = "validate_connection" \/ Has(args, "query")

ZodParse(name, args) ==
    IF name = "ai_search_unstructured" /\ ~Has(args, "fileOnly")
    THEN args @@ ("fileOnly" :> FALSE)
    ELSE args

\* if (args?.fileOnly !== undefined) searchRequest.fileOnly = args.fileOnly
fileOnlyPart(args) ==
    IF Has(args, "fileOnly")
    THEN ("fileOnly" :> args.fileOnly) ELSE EmptyObject

\* The optional field as if it were forwarded whenever the caller gave one,
\* the empty string too (mutant).
searchIndicesPartIfPresent(args) ==
    IF Has(args, "searchIndices")
    THEN ("searchIndices" :> args.searchIndices) ELSE EmptyObject

\* if (args?.searchIndices) searchRequest.searchIndices = args.searchIndices
searchIndicesPart(args) ==
    IF Has(args, "searchIndices") /\ args.searchIndices # ""
    THEN ("searchIndices" :> args.searchIndices) ELSE EmptyObject

\* const searchRequest = { query, searchType } and its optional fields.
searchRequest(name, args) ==
    IF name = "ai_search_structured"
    THEN [query |-> args.query, searchType |-> "structured"]
    ELSE [query |-> args.query, searchType |-> "unstructured"]
            @@ searchIndicesPart(args) @@ fileOnlyPart(args)

\* validateConnection: await this.aiSearch({ query: 'test', ... })
probeRequest == [query |-> "test", searchType |-> "structured"]

\* return { content: [{ type: "text", text }] }.  text names the message:
\* "notInitialized" Error: MCP client not initialized...; "searchResult" the
\* serialized upstream response; "searchError" Error executing <tool>: ...;
\* "validateUnbound", "validateOk", "validateFailed" the three texts of
\* validate_connection.
TextResult(text) == [kind |-> "result", text |-> text]

\* new McpError(ErrorCode.<code>, message)
McpError(code, message) ==
    [kind |-> "error", code |-> code, message |-> message]

\* An error that is no McpError (what the upstream client throws).
PlainError(message) == [kind |-> "plain", message |-> message]

\* The catch block as if it wrapped every error (mutant).
catchToolErrorWrapsAll(name, error) ==
    McpError("InternalError", <<"Error executing", name, error.message>>)

\* catch (error): an McpError is thrown on as it is, anything else becomes
\* McpError(InternalError, `Error executing ${name}: ${errorMessage}`).
catchToolError(name, error) ==
    IF error.kind = "error" THEN error
    ELSE McpError("InternalError", <<"Error executing", name, error.message>>)

\* What the upstream does with a request: it answers, it answers with an
\* error status, or no response arrives (unreachable, or the 180 s timeout
\* of the client).
UpstreamFailures == {"errorStatus", "noResponse"}

UpstreamOutcomes == {"ok"} \cup UpstreamFailures

\* error.response.data as axios hands it over: the parsed JSON object (its
\* message and status present or not, numbers by their decimal text), a
\* text that is no JSON (the empty body among them), or the JSON value null.
ResponseBody(kind, value) == [kind |-> kind, value |-> value]

ResponseBodies ==
    {ResponseBody("object", Opt("message", msg) @@ Opt("status", st)) :
        msg \in {<< >>, <<"">>, <<"quota exceeded">>},
        st \in {<< >>, <<"0">>, <<"429">>}}
    \cup {ResponseBody("text", EmptyObject), ResponseBody("null", EmptyObject)}

\* The AxiosError of a failed request: response is set when the upstream
\* answered with an error status (request is set as well), request alone
\* when nothing came back, neither when the request was never sent.
AxiosError(response, request, message) ==
    [response |-> response, request |-> request, message |-> message]

AxiosErrors ==
    {AxiosError(<<[status |-> st, data |-> d]>>, TRUE, "Request failed") :
        st \in {"401", "429", "500"}, d \in ResponseBodies}
    \cup {AxiosError(<< >>, TRUE, "timeout of 180000ms exceeded")}
    \cup {AxiosError(<< >>, FALSE, msg) : msg \in {"Invalid URL", "canceled"}}

\* The AxiosError behind an outcome of the upstream.
AxiosErrorOf(o) ==
    IF o = "errorStatus"
    THEN AxiosError(<<[status |-> "500",
                       data |-> ResponseBody("object", EmptyObject)]>>,
                    TRUE, "Request failed")
    ELSE AxiosError(<< >>, TRUE, "timeout of 180000ms exceeded")

\* data.message || 'Unknown error'
messageOrUnknown(data) ==
    IF Has(data.value, "message") /\ data.value.message # ""
    THEN data.value.message ELSE "Unknown error"

\* data.status || error.response.status
statusOrHttpStatus(data, httpStatus) ==
    IF Has(data.value, "status") /\ data.value.status # "0"
    THEN data.value.status ELSE httpStatus

\* GptMcpClient.handleError: the Error thrown for a failed request.  Reading
\* data.message of a body that is null throws a TypeError instead.
handleError(error) ==
    IF error.response # << >>
    THEN LET data == error.response[1].data
         IN  IF data.kind = "null"
             THEN PlainError(<<"TypeError: Cannot read properties of null">>)
             ELSE PlainError(<<"GPT MCP API Error: ", messageOrUnknown(data),
                               " (Status: ",
                               statusOrHttpStatus(data, error.response[1].status),
                               ")">>)
    ELSE IF error.request
    THEN PlainError(<<"No response received from GPT MCP API">>)
    ELSE PlainError(<<"Request setup error: ", error.message>>)

\* The SDK's McpServer turned the call down itself (unknown tool, arguments
\* the schema rejects): depending on its version with an InvalidParams
\* protocol error or with a tool result flagged isError.
SdkRejections == {"InvalidParams", "isError"}

SdkRejects(how) ==
    IF how = "isError" THEN [kind |-> "result", text |-> "sdkError"]
    ELSE McpError(how, <<"sdk">>)

NoCall == [pc |-> "none"]

\* transport: the transport of the session the call came in on, for a call
\* that is followed through the HTTP server.
NewCall(variant, bound, name, args) ==
    [variant |-> variant, bound |-> bound, name |-> name, args |-> args,
     pc |-> "start", sent |-> << >>, reply |-> "none", result |-> << >>,
     transport |-> Undefined]

\* The calls a server instance can be given.
ToolCalls ==
    {NewCall(v, b, n, a) :
        v \in Variants, b \in BOOLEAN, n \in ToolNames \cup OtherNames,
        a \in Arguments}

\* The handler as if it could end without an outcome (mutant).
ReturnNothing(c, r) == [c EXCEPT !.pc = "done"]

Return(c, r) == [c EXCEPT !.pc = "done", !.result = <<r>>]

\* await mcpClient.aiSearch(searchRequest): the request goes upstream.
AwaitSearch(c, args) ==
    [c EXCEPT !.pc = "upstream", !.sent = <<searchRequest(c.name, args)>>]

\* await mcpClient.validateConnection()
AwaitProbe(c) == [c EXCEPT !.pc = "probe", !.sent = <<probeRequest>>]

\* The handler as if it had no test of the client (mutant).
ClientGuardAbsent(c) == FALSE

\* if (!mcpClient && name !== 'validate_connection')
ClientGuard(c) == ~c.bound /\ c.name # "validate_connection"

\* case "validate_connection"
validateConnectionCase(c) ==
    IF ~c.bound THEN Return(c, TextResult("validateUnbound"))
    ELSE AwaitProbe(c)

\* The switch of the CallToolRequestSchema handler, up to its first await.
ToolSwitch(c) ==
    CASE c.name \in {"ai_search_structured", "ai_search_unstructured"} ->
            IF QueryFalsy(c.args)
            THEN Return(c, catchToolError(c.name,
                              McpError("InvalidParams", <<"query is required">>)))
            ELSE AwaitSearch(c, c.args)
      [] c.name = "validate_connection" -> validateConnectionCase(c)
      [] OTHER -> Return(c, catchToolError(c.name,
                              McpError("MethodNotFound", <<"Unknown tool", c.name>>)))

\* server.setRequestHandler(CallToolRequestSchema, ...) of index.js and
\* http-server.ts.
CallToolIndex(c) ==
    IF ClientGuard(c)
    THEN Return(c, TextResult("notInitialized"))
    ELSE ToolSwitch(c)

\* The same handler in smithery-index.ts: no guard, the client is bound.
CallToolSmithery(c) == ToolSwitch(c)

\* McpServer.registerTool callbacks of src/index.ts behind the SDK's lookup
\* of the tool and its zod validation.
CallToolMcpServer(c, sdk) ==
    IF c.name \notin ToolNames \/ ~ZodValid(c.name, c.args)
    THEN Return(c, SdkRejects(sdk))
    ELSE IF c.name = "validate_connection" THEN AwaitProbe(c)
    ELSE AwaitSearch(c, ZodParse(c.name, c.args))

\* A call-tool request reaches the handler, which runs to its first await
\* or to its end.
CallTool(sdk) ==
    /\ call.pc = "start"
    /\ call' = CASE call.variant = "index" -> CallToolIndex(call)
                 [] call.variant = "smithery" -> CallToolSmithery(call)
                 [] OTHER -> CallToolMcpServer(call, sdk)
    /\ UNCHANGED <<httpVars, configVars>>

\* The probe as if its failure escaped validateConnection (mutant).
probeFailedThrows(c) ==
    Return(c, catchToolError(c.name, handleError(AxiosErrorOf(c.reply))))

\* validateConnection: catch (error) { ...; return false }, and the text
\* the handler gives for false.
probeFailed(c) == Return(c, TextResult("validateFailed"))

\* The upstream answers or the request fails: aiSearch resolves or
\* handleError throws.
UpstreamReplies(o) ==
    /\ call.pc \in {"upstream", "probe"}
    /\ LET c == [call EXCEPT !.reply = o]
           ok == o = "ok"
       IN call' =
             IF c.pc = "probe"
             THEN IF ok THEN Return(c, TextResult("validateOk"))
                  ELSE probeFailed(c)
             ELSE IF ok THEN Return(c, TextResult("searchResult"))
             ELSE IF c.variant = "mcpserver"
             THEN Return(c, TextResult("searchError"))
             ELSE Return(c, catchToolError(c.name, handleError(AxiosErrorOf(o))))
    /\ UNCHANGED <<httpVars, configVars>>

\* ------------------------------------------------ configuration and startup
\* A string is a sequence of tokens, so that a prefix test and a join are
\* computed on it; a value that may be undefined is << >> or <<value>>.
DEFAULT_API_HOST == <<"https://", "directory.axys.ai">>

\* o[f], undefined when o has no property f.
Get(o, f) == IF Has(o, f) THEN <<o[f]>> ELSE << >>

\* undefined and the empty string are falsy.
StrTruthy(m) == m # << >> /\ m[1] # << >>

\* Strings are sequences of tokens, and a token is one piece or, "http://"
\* and its like, three.  The pieces: names (they begin with a letter and
\* hold letters, digits and dots), digits, ":" and "//".  The names of the
\* special schemes, whose URLs need a host:
SpecialNames == {"http", "https", "HTTPS", "ftp"}
Names == {"k", "string", "a.example", "directory.axys.ai"} \cup SpecialNames
Digits == {"8", "8000"}

\* The pieces of one token, and of a string.
Pieces(token) ==
    CASE token = "http://" -> <<"http", ":", "//">>
      [] token = "https://" -> <<"https", ":", "//">>
      [] token = "HTTPS://" -> <<"HTTPS", ":", "//">>
      [] token = "ftp://" -> <<"ftp", ":", "//">>
      [] OTHER -> <<token>>

RECURSIVE URLPieces(_)
URLPieces(s) ==
    IF s = << >> THEN << >> ELSE Pieces(Head(s)) \o URLPieces(Tail(s))

\* The position of the first piece x of p, Len(p) + 1 when there is none.
FirstOf(p, x) ==
    IF \E j \in 1..Len(p) : p[j] = x
    THEN CHOOSE j \in 1..Len(p) : p[j] = x /\ \A i \in 1..(j - 1) : p[i] # x
    ELSE Len(p) + 1

\* The number of digits a sequence of digit pieces writes.  Every piece
\* begins with 8, so the number is below 2^32 exactly when it has at most
\* nine digits and is at most 65535 exactly when it has at most four.
RECURSIVE DigitCount(_)
DigitCount(d) ==
    IF d = << >> THEN 0
    ELSE (IF Head(d) = "8" THEN 1 ELSE 4) + DigitCount(Tail(d))

\* The "//" pieces a sequence opens with.
RECURSIVE LeadingSlashes(_)
LeadingSlashes(p) ==
    IF p # << >> /\ p[1] = "//" THEN 1 + LeadingSlashes(Tail(p)) ELSE 0

AllDigits(p) == \A j \in 1..Len(p) : p[j] \in Digits

\* The authority of a URL (host, then ":" and a port) parses.  A host is
\* needed before a ":" and for a special scheme; a host of digits alone is
\* an IPv4 number; a port is digits up to 65535.
AuthorityParses(auth, special) ==
    LET colon == FirstOf(auth, ":")
        host == SubSeq(auth, 1, colon - 1)
        port == SubSeq(auth, colon + 1, Len(auth))
    IN  /\ host = << >> => (~special /\ colon > Len(auth))
        /\ (special /\ host # << >> /\ AllDigits(host))
              => DigitCount(host) <= 9
        /\ AllDigits(port)
        /\ DigitCount(port) <= 4

\* new URL(url) returns: the string opens with a scheme (a name, then
\* names and digits, then ":"); after a special scheme, and after "//",
\* an authority follows up to the next "//", where the path begins; after
\* another scheme without "//" anything is an opaque path.
URLParses(s) ==
    LET p == URLPieces(s)
        colon == FirstOf(p, ":")
        special == colon = 2 /\ p[1] \in SpecialNames
        rest == SubSeq(p, colon + 1, Len(p))
        slashes == IF special THEN LeadingSlashes(rest)
                   ELSE IF rest # << >> /\ rest[1] = "//" THEN 1 ELSE 0
        after == SubSeq(rest, slashes + 1, Len(rest))
        auth == SubSeq(after, 1, FirstOf(after, "//") - 1)
    IN  /\ colon >= 2
        /\ colon <= Len(p)
        /\ p[1] \in Names
        /\ \A j \in 2..(colon - 1) : p[j] \in Names \cup Digits
        /\ (special \/ slashes = 1) => AuthorityParses(auth, special)

\* The protocol of a parsed URL: its scheme, in lower case, and ":".
URLProtocol(s) ==
    LET p == URLPieces(s)
        lower(x) == IF x = "HTTPS" THEN "https" ELSE x
    IN  [j \in 1..FirstOf(p, ":") |-> lower(p[j])]

\* s.startsWith(prefix), for a prefix of one token.
startsWith(s, prefix) ==
    LET p == URLPieces(s)
        q == Pieces(prefix)
    IN  Len(p) >= Len(q) /\ SubSeq(p, 1, Len(q)) = q

\* isValidUrl without its test of the prefix (mutant).
isValidUrlParsesOnly(url) == StrTruthy(url) /\ URLParses(url[1])

isValidUrl(url) ==
    IF ~StrTruthy(url) THEN FALSE
    ELSE IF ~URLParses(url[1]) THEN FALSE
    ELSE startsWith(url[1], "http://") \/ startsWith(url[1], "https://")

\* isValidUrl(host) ? host : DEFAULT_API_HOST
apiHostOf(host) == IF isValidUrl(host) THEN host[1] ELSE DEFAULT_API_HOST

\* new GptMcpClient({ host, mcpKey })
GptMcpClient(host, mcpKey) == [host |-> host, mcpKey |-> mcpKey]

\* `${apiHost}:${config.MCP_KEY}`
configKey(host, key) == host \o <<":">> \o key

EmptyMap == [k \in {} |-> 0]

\* mcpClients.set(configKey, client)
MapSet(map, k, v) == [x \in DOMAIN map \cup {k} |-> IF x = k THEN v ELSE map[x]]

\* A cache that is never found to hold a key (mutant).
mcpClientsHasNothing(map, k) == FALSE

\* mcpClients.has(configKey)
mcpClientsHas(map, k) == k \in DOMAIN map

\* getMcpClient(config): the client, and the cache and the instances after
\* the call. apiHost is the host computed for a configuration with a key.
getMcpClient(config, map, cl, dflt) ==
    IF config # << >> /\ StrTruthy(Get(config[1], "MCP_KEY"))
    THEN LET host == apiHostOf(Get(config[1], "AXYS_API_HOST"))
             key == configKey(host, config[1].MCP_KEY)
         IN  IF ~mcpClientsHas(map, key)
             THEN [client |-> Len(cl) + 1,
                   mcpClients |-> MapSet(map, key, Len(cl) + 1),
                   clients |-> Append(cl, GptMcpClient(host, Get(config[1], "MCP_KEY"))),
                   apiHost |-> <<host>>, constructed |-> TRUE, usedDefault |-> FALSE]
             ELSE [client |-> map[key], mcpClients |-> map, clients |-> cl,
                   apiHost |-> <<host>>, constructed |-> FALSE, usedDefault |-> FALSE]
    ELSE [client |-> dflt, mcpClients |-> map, clients |-> cl,
          apiHost |-> << >>, constructed |-> FALSE, usedDefault |-> TRUE]

\* The text of the `config` query parameter, by what JSON.parse makes of it.
JsonText(kind, value) == [kind |-> kind, value |-> value]

\* JSON.parse(decoded) returns and the log line after it does not throw:
\* a malformed text throws in the parser, null throws at config.AXYS_API_HOST.
JSONParseReturns(text) == text.kind \in {"object", "number"}

\* parseConfigFromQuery(req): direct fields first, the JSON field second.
parseConfigFromQuery(query) ==
    IF StrTruthy(Get(query, "MCP_KEY")) \/ StrTruthy(Get(query, "AXYS_API_HOST"))
    THEN [source |-> "direct",
          config |-> <<Opt("AXYS_API_HOST", Get(query, "AXYS_API_HOST"))
                       @@ Opt("MCP_KEY", Get(query, "MCP_KEY"))>>]
    ELSE IF Has(query, "config") /\ JSONParseReturns(query.config)
    THEN [source |-> "json", config |-> <<query.config.value>>]
    ELSE [source |-> "none", config |-> << >>]

HostA == <<"https://", "a.example">>

HostInputs ==
    {<< >>, << <<"string">> >>, <<HostA>>, <<HostA \o <<":", "8">>>>,
     << <<"HTTPS://", "a.example">> >>, << <<"ftp://", "a.example">> >>,
     << <<"k", ":", "8">> >>}

KeyInputs == {<< >>, << << >> >>, << <<"k">> >>, << <<"8", ":", "k">> >>}

JsonTexts ==
    {JsonText("malformed", EmptyObject), JsonText("null", EmptyObject),
     JsonText("number", EmptyObject)}
    \cup {JsonText("object", Opt("AXYS_API_HOST", h) @@ Opt("MCP_KEY", k)) :
             h \in {<< >>, <<HostA>>}, k \in {<< >>, << <<"k">> >>}}

\* req.query of a POST /mcp: direct fields alone, or the JSON field beside
\* direct fields that are absent, partial or empty.
QueryOf(h, k, c) == Opt("AXYS_API_HOST", h) @@ Opt("MCP_KEY", k) @@ Opt("config", c)

Queries ==
    {QueryOf(h, k, << >>) : h \in HostInputs, k \in KeyInputs}
    \cup {QueryOf(d[1], d[2], <<t>>) :
             d \in {<< << >>, << >> >>, << << <<"string">> >>, << >> >>,
                    << << >>, << << >> >> >>, << << >>, << <<"k">> >> >>},
             t \in JsonTexts}

\* process.env and process.stdin.isTTY.
Envs ==
    {[vars |-> Opt("MCP_TRANSPORT", t) @@ Opt("MCP_KEY", k)
               @@ Opt("AXYS_API_HOST", h) @@ Opt("PORT", p),
      isTTY |-> tty] :
        t \in {<< >>, << <<"stdio">> >>},
        k \in {<< >>, << << >> >>, << <<"k">> >>},
        h \in HostInputs,
        p \in {<< >>, << <<"8000">> >>},
        tty \in BOOLEAN}

STDIO_MODE(e) ==
    \/ Get(e.vars, "MCP_TRANSPORT") = << <<"stdio">> >>
    \/ /\ StrTruthy(Get(e.vars, "MCP_KEY"))
       /\ ~e.isTTY
       /\ ~StrTruthy(Get(e.vars, "PORT"))

Booting == [pc |-> "main", exitCode |-> -1, probes |-> 0, connected |-> FALSE]
Listening == [Booting EXCEPT !.pc = "http"]

NoResolution ==
    [pc |-> "idle", query |-> EmptyObject, source |-> "none", client |-> 0,
     apiHost |-> << >>, constructed |-> FALSE, usedDefault |-> FALSE]

\* startStdioServer as if a missing key were only logged (mutant).
requireKeyLogs(b, key) == b

\* if (!MCP_KEY) { console.error(...); process.exit(1) }
requireKey(b, key) ==
    IF ~StrTruthy(key) THEN [b EXCEPT !.pc = "exited", !.exitCode = 1] ELSE b

\* startStdioServer up to its first await: the key is required, the default
\* client is built and validateConnection() sends its probe.
startStdioServer(c) ==
    LET API_HOST == apiHostOf(Get(c.env.vars, "AXYS_API_HOST"))
        MCP_KEY == Get(c.env.vars, "MCP_KEY")
        b == requireKey(c.boot, MCP_KEY)
    IN  IF b.pc = "exited"
        THEN [c EXCEPT !.boot = b]
        ELSE [c EXCEPT !.clients = Append(@, GptMcpClient(API_HOST, MCP_KEY)),
                       !.defaultMcpClient = Len(c.clients) + 1,
                       !.boot = [b EXCEPT !.pc = "probe", !.probes = @ + 1]]

\* The default client startHttpServer leaves behind: built when MCP_KEY is
\* set, bound to the validated host.
httpDefaultClient(e) ==
    LET API_HOST == apiHostOf(Get(e.vars, "AXYS_API_HOST"))
        MCP_KEY == Get(e.vars, "MCP_KEY")
    IN  IF StrTruthy(MCP_KEY) THEN <<GptMcpClient(API_HOST, MCP_KEY)>> ELSE << >>

\* startHttpServer up to app.listen.
startHttpServer(c) ==
    [c EXCEPT !.clients = @ \o httpDefaultClient(c.env),
              !.defaultMcpClient = IF httpDefaultClient(c.env) # << >>
                                   THEN Len(c.clients) + 1 ELSE 0,
              !.boot = [@ EXCEPT !.pc = "http"]]

\* main(): the mode is chosen, and the chosen start function runs to its
\* first await.
Main ==
    /\ boot.pc = "main"
    /\ cfg' = IF STDIO_MODE(env) THEN startStdioServer(cfg) ELSE startHttpServer(cfg)
    /\ UNCHANGED <<httpVars, call>>

\* validateConnection() has settled (it returns true or false, it does not
\* throw); createMcpServer() takes the default client and connect() is called.
StdioProbe(o) ==
    /\ boot.pc = "probe"
    /\ LET r == getMcpClient(<< >>, mcpClients, clients, defaultMcpClient)
       IN  cfg' = [cfg EXCEPT
                     !.resolved = [NoResolution EXCEPT !.pc = "done",
                                                       !.client = r.client,
                                                       !.usedDefault = r.usedDefault],
                     !.boot = [@ EXCEPT !.pc = "connect"]]
    /\ UNCHANGED <<httpVars, call>>

\* await server.connect(transport) has settled; a rejection reaches
\* main().catch, which exits with code 1.
StdioConnect(ok) ==
    /\ boot.pc = "connect"
    /\ cfg' = [cfg EXCEPT
                 !.boot = IF ok THEN [@ EXCEPT !.pc = "stdio", !.connected = TRUE]
                          ELSE [@ EXCEPT !.pc = "exited", !.exitCode = 1],
                 !.resolved = NoResolution]
    /\ UNCHANGED <<httpVars, call>>

\* An initializing POST /mcp: parseConfigFromQuery(req), then
\* createMcpServer(config) resolves the client with getMcpClient(config).
ResolveConfig(query) ==
    /\ boot.pc = "http"
    /\ LET p == parseConfigFromQuery(query)
           r == getMcpClient(p.config, mcpClients, clients, defaultMcpClient)
       IN  /\ Cardinality(DOMAIN r.mcpClients) <= MaxClients
           /\ cfg' = [cfg EXCEPT
                        !.mcpClients = r.mcpClients,
                        !.clients = r.clients,
                        !.resolved = [pc |-> "done", query |-> query,
                                      source |-> p.source, client |-> r.client,
                                      apiHost |-> r.apiHost,
                                      constructed |-> r.constructed,
                                      usedDefault |-> r.usedDefault],
                        !.served = IF r.usedDefault THEN @
                                   ELSE @ \cup {[host |-> r.apiHost[1],
                                                 mcpKey |-> p.config[1].MCP_KEY,
                                                 client |-> r.client]}]
    /\ UNCHANGED <<httpVars, call>>

\* The process with the environment e, before main() has run.
Started(e) ==
    [env |-> e, boot |-> Booting, mcpClients |-> EmptyMap,
     defaultMcpClient |-> 0, clients |-> << >>, resolved |-> NoResolution,
     served |-> {}, servers |-> EmptyMap]

\* The HTTP server listening, started with nothing in the environment.
NoEnv == [vars |-> EmptyObject, isTTY |-> TRUE]

InitListening == cfg = startHttpServer(Started(NoEnv))

\* The process as it is started, in any environment.
InitStartup ==
    /\ InitHttp
    /\ call = NoCall
    /\ cfg \in {Started(e) : e \in Envs}

NextStartup ==
    \/ Main
    \/ \E o \in UpstreamOutcomes : StdioProbe(o)
    \/ \E ok \in BOOLEAN : StdioConnect(ok)

SpecStartup == InitStartup /\ [][NextStartup]_vars

\* The environments of the HTTP server whose resolutions are followed.
HttpEnvs ==
    {e \in Envs : /\ ~STDIO_MODE(e)
                  /\ e.isTTY
                  /\ ~Has(e.vars, "PORT")
                  /\ Get(e.vars, "MCP_KEY") \in {<< >>, << <<"k">> >>}
                  /\ Get(e.vars, "AXYS_API_HOST") \in {<< >>, << <<"string">> >>, <<HostA>>}
                  /\ Has(e.vars, "AXYS_API_HOST") => Has(e.vars, "MCP_KEY")}

\* The HTTP server after startHttpServer, before its first request.
InitConfig ==
    /\ InitHttp
    /\ call = NoCall
    /\ cfg \in {startHttpServer(Started(e)) : e \in HttpEnvs}

NextConfig == \E query \in Queries : ResolveConfig(query)

SpecConfig == InitConfig /\ [][NextConfig]_vars

Init == InitHttp /\ call = NoCall /\ InitListening

\* A server instance with a client bound or not (only the index entry point
\* runs without one) is given one call.
InitTools ==
    /\ InitHttp
    /\ call \in {c \in ToolCalls : c.variant = "index" \/ c.bound}
    /\ InitListening

NextTools ==
    \/ \E sdk \in SdkRejections : CallTool(sdk)
    \/ \E o \in UpstreamOutcomes : UpstreamReplies(o)

SpecTools == InitTools /\ [][NextTools]_vars

\* The handler's steps are taken when they can be: the event loop runs a
\* handler that was called, and the upstream request settles (it answers,
\* fails, or the client's timeout of 180 s fails it).
SpecToolsLive == SpecTools /\ WF_vars(NextTools)

\* ------------------------------------------------------------ specification
Outcomes == {"ok", "reject", "throw", "lateThrow"}
StreamOutcomes == {"ok", "reject", "throw"}
\* Whether an unhandled rejection ends the process matters only where one occurs.
Crashes(rejects) == IF rejects THEN BOOLEAN ELSE {FALSE}

Next ==
    \/ \E h \in Headers, init \in BOOLEAN : PostMcp(h, init) /\ UNCHANGED <<call, configVars>>
    \/ \E q \in InFlight, ok \in BOOLEAN : PostConnect(q, ok) /\ UNCHANGED <<call, configVars>>
    \/ \E q \in InFlight, o \in Outcomes : TransportHandlePost(q, o) /\ UNCHANGED <<call, configVars>>
    \/ \E h \in Headers : \E crash \in Crashes(h \in ProtoKeys) : GetMcp(h, crash) /\ UNCHANGED <<call, configVars>>
    \/ \E q \in InFlight, o \in StreamOutcomes : \E crash \in Crashes(o = "throw") :
          TransportHandleGet(q, o, crash) /\ UNCHANGED <<call, configVars>>
    \/ \E h \in Headers : \E crash \in Crashes(h \in ProtoKeys) : DeleteMcp(h, crash) /\ UNCHANGED <<call, configVars>>
    \/ \E q \in InFlight, o \in StreamOutcomes : \E crash \in Crashes(o = "throw") :
          TransportHandleDelete(q, o, crash) /\ UNCHANGED <<call, configVars>>
    \/ \E t \in 1..Len(tr) : Disconnect(t) /\ UNCHANGED <<call, configVars>>
    \/ Turn /\ UNCHANGED <<call, configVars>>

\* The request handlers of /mcp and the transports' own closures.
Spec == Init /\ [][Next]_vars

\* The SIGINT handler running among POST and DELETE requests.
NextShutdown ==
    \/ \E h \in Headers, init \in BOOLEAN : PostMcp(h, init) /\ UNCHANGED <<call, configVars>>
    \/ \E q \in InFlight, ok \in BOOLEAN : PostConnect(q, ok) /\ UNCHANGED <<call, configVars>>
    \/ \E q \in InFlight, o \in Outcomes : TransportHandlePost(q, o) /\ UNCHANGED <<call, configVars>>
    \/ \E h \in Headers : \E crash \in Crashes(h \in ProtoKeys) : DeleteMcp(h, crash) /\ UNCHANGED <<call, configVars>>
    \/ \E q \in InFlight, o \in StreamOutcomes : \E crash \in Crashes(o = "throw") :
          TransportHandleDelete(q, o, crash) /\ UNCHANGED <<call, configVars>>
    \/ \E ok \in BOOLEAN : Sigint(ok) /\ UNCHANGED <<call, configVars>>
    \/ \E i \in 1..Len(sig), ok \in BOOLEAN : ShutdownDelete(i, ok) /\ UNCHANGED <<call, configVars>>
    \/ \E i \in 1..Len(sig), ok \in BOOLEAN : ShutdownCatch(i, ok) /\ UNCHANGED <<call, configVars>>
    \/ Turn /\ UNCHANGED <<call, configVars>>

SpecShutdown == Init /\ [][NextShutdown]_vars

\* The discovery endpoint among the requests and closures that fill and
\* empty the table: POST, DELETE and a client going away.
NextDiscovery ==
    \/ \E h \in Headers, init \in BOOLEAN : PostMcp(h, init) /\ UNCHANGED <<call, configVars>>
    \/ \E q \in InFlight, ok \in BOOLEAN : PostConnect(q, ok) /\ UNCHANGED <<call, configVars>>
    \/ \E q \in InFlight, o \in Outcomes : TransportHandlePost(q, o) /\ UNCHANGED <<call, configVars>>
    \/ \E h \in Headers : \E crash \in Crashes(h \in ProtoKeys) : DeleteMcp(h, crash) /\ UNCHANGED <<call, configVars>>
    \/ \E q \in InFlight, o \in StreamOutcomes : \E crash \in Crashes(o = "throw") :
          TransportHandleDelete(q, o, crash) /\ UNCHANGED <<call, configVars>>
    \/ \E t \in 1..Len(tr) : Disconnect(t) /\ UNCHANGED <<call, configVars>>
    \/ WellKnown /\ UNCHANGED <<call, configVars>>
    \/ Turn /\ UNCHANGED <<call, configVars>>

SpecDiscovery == Init /\ [][NextDiscovery]_vars

\* ------------------------------------------- a tool call and its session
\* The tool calls followed through the closure of their session: a search
\* and a probe, on a server with a client bound or not.
SessionCalls ==
    {NewCall("index", b, n, ArgsOf(<<"deployment">>, << >>, << >>)) :
        b \in BOOLEAN, n \in {"ai_search_structured", "validate_connection"}}

\* transport.onclose as if it aborted the upstream request of its session
\* (mutant).
oncloseCallAborts(c, t) ==
    IF c.pc \in {"upstream", "probe"} /\ c.transport = t
    THEN Return(c, catchToolError(c.name,
                      handleError(AxiosError(<< >>, FALSE, "canceled"))))
    ELSE c

\* What transport.onclose does to a tool call of its session: nothing.  It
\* deletes the table entry only, and aiSearch hands axios no signal or
\* cancel token that a closure could trigger.
oncloseCall(c, t) == c

\* A POST of an established session carries a tools/call: handleRequest is
\* called in the turn the request arrives in, and the transport hands the
\* message to the CallToolRequestSchema handler of the session's server,
\* which runs to its first await or to its end.  One call is followed.
PostToolCall(h, c) ==
    /\ call = NoCall
    /\ ReuseBranch(transports, h)
    /\ Lookup(transports, h) # ProtoObject
    /\ PostMcp(h, FALSE)
    /\ call' = CallToolIndex([c EXCEPT !.transport = Lookup(transports, h)])
    /\ UNCHANGED configVars

\* The requests of sessions, the closures of their transports, and one tool
\* call whose upstream request settles when its session is open or closed.
NextUpstream ==
    \/ \E h \in Headers, init \in BOOLEAN : PostMcp(h, init) /\ UNCHANGED <<call, configVars>>
    \/ \E h \in 1..uuids, c \in SessionCalls : PostToolCall(h, c)
    \/ \E q \in InFlight, ok \in BOOLEAN : PostConnect(q, ok) /\ UNCHANGED <<call, configVars>>
    \/ \E q \in InFlight, o \in Outcomes : TransportHandlePost(q, o) /\ UNCHANGED <<call, configVars>>
    \/ \E h \in Headers : \E crash \in Crashes(h \in ProtoKeys) : DeleteMcp(h, crash) /\ UNCHANGED <<call, configVars>>
    \/ \E q \in InFlight, o \in StreamOutcomes : \E crash \in Crashes(o = "throw") :
          /\ TransportHandleDelete(q, o, crash)
          /\ call' = IF o = "ok" THEN oncloseCall(call, q.transport) ELSE call
          /\ UNCHANGED configVars
    \/ \E t \in 1..Len(tr) :
          Disconnect(t) /\ call' = oncloseCall(call, t) /\ UNCHANGED configVars
    \/ \E o \in UpstreamOutcomes : Running /\ UpstreamReplies(o)
    \/ Turn /\ UNCHANGED <<call, configVars>>

SpecUpstream == Init /\ [][NextUpstream]_vars

\* ------------------------------------------- sessions and their clients
\* The query strings of the requests of the sessions: none, a key, a host
\* and a key, another key.
SessionQueries ==
    {QueryOf(<< >>, << >>, << >>),
     QueryOf(<< >>, << <<"k">> >>, << >>),
     QueryOf(<<HostA>>, << <<"k">> >>, << >>),
     QueryOf(<< >>, << <<"8", ":", "k">> >>, << >>)}

\* A handler that creates a server instance for every POST (mutant).
createsServerAlways(table, h, init) == TRUE

\* The POST handler reaches createMcpServer(config): the init branch, which
\* is tried after the reuse branch.
createsServer(table, h, init) == ~ReuseBranch(table, h) /\ InitBranch(h, init)

\* A server instance that looks its client up in what the latest request
\* resolved (mutant).
mcpClientOfLatest(t) == resolved.client

\* const mcpClient = getMcpClient(config) of createMcpServer: the client the
\* tool handlers of the server instance of transport t call.
mcpClientOf(t) == servers[t]

\* app.post('/mcp') up to its first await, with the query string of the
\* request: parseConfigFromQuery(req) runs for every POST, and
\* createMcpServer(config) with its getMcpClient(config) in the init branch.
PostMcpQuery(h, init, query) ==
    /\ boot.pc = "http"
    /\ PostMcp(h, init)
    /\ LET p == parseConfigFromQuery(query)
           r == getMcpClient(p.config, mcpClients, clients, defaultMcpClient)
       IN  IF createsServer(transports, h, init)
           THEN /\ Cardinality(DOMAIN r.mcpClients) <= MaxClients
                /\ cfg' = [cfg EXCEPT
                             !.mcpClients = r.mcpClients,
                             !.clients = r.clients,
                             !.resolved = [pc |-> "done", query |-> query,
                                           source |-> p.source,
                                           client |-> r.client,
                                           apiHost |-> r.apiHost,
                                           constructed |-> r.constructed,
                                           usedDefault |-> r.usedDefault],
                             !.served = IF r.usedDefault THEN @
                                        ELSE @ \cup {[host |-> r.apiHost[1],
                                                      mcpKey |-> p.config[1].MCP_KEY,
                                                      client |-> r.client]},
                             !.servers = MapSet(@, Len(tr) + 1, r.client)]
           ELSE cfg' = [cfg EXCEPT
                          !.resolved = [NoResolution EXCEPT
                                          !.pc = "parsed", !.query = query,
                                          !.source = p.source]]
    /\ UNCHANGED call

\* A step that resolves no configuration: the cache, the clients and the
\* server instances stay as they are.
NoQueryRead ==
    /\ cfg' = [cfg EXCEPT !.resolved = NoResolution]
    /\ UNCHANGED call

\* app.get('/mcp') and app.delete('/mcp') never read req.query.
GetMcpQuery(h, crash, query) == GetMcp(h, crash) /\ NoQueryRead

DeleteMcpQuery(h, crash, query) == DeleteMcp(h, crash) /\ NoQueryRead

\* The HTTP server after startHttpServer, before its first request.
InitSessions ==
    /\ InitHttp
    /\ call = NoCall
    /\ InitListening

NextSessions ==
    \/ \E h \in Headers, init \in BOOLEAN, query \in SessionQueries :
          PostMcpQuery(h, init, query)
    \/ \E q \in InFlight, ok \in BOOLEAN : PostConnect(q, ok) /\ NoQueryRead
    \/ \E q \in InFlight, o \in Outcomes : TransportHandlePost(q, o) /\ NoQueryRead
    \/ \E h \in Headers, query \in SessionQueries : GetMcpQuery(h, FALSE, query)
    \/ \E q \in InFlight, o \in StreamOutcomes :
          TransportHandleGet(q, o, FALSE) /\ NoQueryRead
    \/ \E h \in Headers, query \in SessionQueries : DeleteMcpQuery(h, FALSE, query)
    \/ \E q \in InFlight, o \in StreamOutcomes :
          TransportHandleDelete(q, o, FALSE) /\ NoQueryRead
    \/ Turn /\ NoQueryRead

\* The sessions with the configuration their requests carry.
SpecSessions == InitSessions /\ [][NextSessions]_vars

\* ------------------------------------------------- the upstream client
\* GptMcpClient.aiSearch and GptMcpClient.validateConnection of one client:
\* the POST is sent, axios settles it, the response interceptor turns a
\* rejection into the Error of handleError.
ClientRequests ==
    {probeRequest,
     [query |-> "deployment", searchType |-> "structured"],
     [query |-> "deployment", searchType |-> "unstructured"]}

Returned(value) == [kind |-> "returned", value |-> value]

Thrown(error) == [kind |-> "thrown", error |-> error]

\* The client has posted the request of the operation op.
ClientCall(op, request) ==
    [pc |-> "posted", op |-> op, request |-> request, error |-> << >>,
     outcome |-> << >>]

ClientCalls ==
    {ClientCall("aiSearch", r) : r \in ClientRequests}
    \cup {ClientCall("validateConnection", probeRequest)}

\* aiSearch(request): return response.data, or the interceptor's Error.
\* settled: << >> for a response with a success status, <<error>> else.
aiSearch(settled) ==
    IF settled = << >> THEN Returned("response.data")
    ELSE Thrown(handleError(settled[1]))

\* validateConnection(): try { await this.aiSearch(...); return true }
\* catch (error) { return false }
validateConnection(settled) ==
    IF aiSearch(settled).kind = "thrown" THEN Returned(FALSE)
    ELSE Returned(TRUE)

\* The POST of the client settles and the operation ends.
ClientSettles(settled) ==
    /\ call.pc = "posted"
    /\ call' = [call EXCEPT
                  !.pc = "done",
                  !.error = settled,
                  !.outcome = <<IF call.op = "aiSearch" THEN aiSearch(settled)
                                ELSE validateConnection(settled)>>]
    /\ UNCHANGED <<httpVars, configVars>>

InitClient ==
    /\ InitHttp
    /\ InitListening
    /\ call \in ClientCalls

NextClient ==
    \E settled \in {<< >>} \cup {<<e>> : e \in AxiosErrors} : ClientSettles(settled)

SpecClient == InitClient /\ [][NextClient]_vars

\* ==================================================================== claims
\* The table entries registered for transport t.
EntriesOf(t) == {k \in DOMAIN transports : transports[k] = t}

\* C1: a POST /mcp with no mcp-session-id header and an initialization body
\* creates exactly one session-table entry once its transport has assigned
\* the identifier (and none when the transport assigned none), and every
\* identifier inserted differs from all identifiers that were ever keys.
C1_InitCreatesOneFreshSession ==
    /\ \A i, j \in 1..Len(insertLog) : i # j => insertLog[i] # insertLog[j]
    /\ (last.method = "POST" /\ last.sid = NoHeader /\ last.init) =>
          /\ last.created \in 1..Len(tr)
          /\ IF tr[last.created].sessionId # Undefined
             THEN /\ EntriesOf(last.created) = {tr[last.created].sessionId}
                  /\ last.inserted = 1
                  /\ insertLog[Len(insertLog)] = tr[last.created].sessionId
             ELSE /\ EntriesOf(last.created) = {}
                  /\ last.inserted = 0

\* The second initializing POST of the process got its session.
C1_Witness ==
    /\ last.method = "POST" /\ last.sid = NoHeader /\ last.init
    /\ last.resp = <<TransportResp(200)>>
    /\ Len(insertLog) = 2
    /\ EntriesOf(last.created) = {insertLog[2]}

\* C2: the table holds at most one entry per identifier, each entry is the
\* transport that reports that identifier, and no two live transports report
\* the same identifier.
C2_OneTransportPerSessionId ==
    /\ \A k \in DOMAIN transports :
          transports[k] \in 1..Len(tr) /\ tr[transports[k]].sessionId = k
    /\ \A t1, t2 \in 1..Len(tr) :
          (t1 # t2 /\ tr[t1].sessionId # Undefined /\ ~Closed(t1) /\ ~Closed(t2))
             => tr[t1].sessionId # tr[t2].sessionId

\* Two live sessions are registered at the same time.
C2_Witness ==
    /\ Cardinality(DOMAIN transports) = 2
    /\ \A t \in 1..Len(tr) : tr[t].sessionId # Undefined /\ ~Closed(t)

\* C3 (as claimed): a POST /mcp whose mcp-session-id value is not a key of
\* the session table creates no session, and when its body is not an
\* initialization message it is rejected with status 400 and code -32000.
C3_UnknownSessionRejected ==
    (last.method = "POST" /\ HeaderTruthy(last.sid) /\ last.hit # "own") =>
       /\ last.created = Undefined
       /\ last.inserted = 0
       /\ ~last.init => last.resp = <<BadRequestResp>>

\* C4: a POST /mcp with no mcp-session-id header and a body that is not an
\* initialization message is answered 400 with the -32000 envelope at once:
\* it constructs no transport, inserts nothing and is handed to no transport.
C4_NoSessionNoInitRejected ==
    /\ (last.method = "POST" /\ last.sid = NoHeader /\ ~last.init) =>
          /\ last.resp = <<BadRequestResp>>
          /\ last.resp[1].status = 400
          /\ last.resp[1].code = -32000
          /\ last.resp[1].message = "Bad Request: No valid session ID provided"
          /\ last.created = Undefined
          /\ last.transport = Undefined
          /\ last.inserted = 0
    /\ \A q \in InFlight : ~(q.method = "POST" /\ q.sid = NoHeader /\ ~q.init)

\* Such a request was answered while a session is registered.
C4_Witness ==
    /\ last.method = "POST" /\ last.sid = NoHeader /\ ~last.init
    /\ last.resp = <<BadRequestResp>>
    /\ DOMAIN transports # {}

\* C5 (as claimed): once a transport has reported closure, the session
\* table holds no entry for its identifier, in that state and in every later
\* one.  (A transport that reported closure before it was given its
\* initialization message is registered by onsessioninitialized all the
\* same.)
C5_ClosedSessionNotInTable ==
    \A t \in 1..Len(tr) :
       (Closed(t) /\ tr[t].sessionId # Undefined)
          => tr[t].sessionId \notin DOMAIN transports

\* C6: the close callback is idempotent: run for a session whose entry is
\* absent (closed before, or no identifier assigned) it leaves the table as
\* it is, and running it twice gives the table that running it once gives;
\* a closure reported by a transport without an identifier, or whose
\* identifier has no entry, has left the table as it was.
C6_CloseIdempotent ==
    /\ \A sid \in {Undefined} \cup (1..uuids) :
          /\ (sid = Undefined \/ sid \notin DOMAIN transports)
                => onclose(transports, sid) = transports
          /\ onclose(onclose(transports, sid), sid) = onclose(transports, sid)
    /\ (/\ closeEv.t # Undefined
        /\ (closeEv.sid = Undefined \/ closeEv.sid \notin DOMAIN closeEv.before))
          => transports = closeEv.before

\* A transport reported closure a second time, its entry gone, while another
\* session is live.
C6_Witness ==
    /\ closeEv.t # Undefined
    /\ closeEv.again
    /\ closeEv.sid # Undefined
    /\ closeEv.sid \notin DOMAIN closeEv.before
    /\ DOMAIN transports # {}

\* C7: a DELETE /mcp whose header matches an entry is handed to that entry's
\* transport; when that transport runs its close sequence the entry of that
\* session is gone, it was deleted exactly once, and every other entry is
\* still there.
C7_DeleteRemovesExactlyOnce ==
    /\ \A q \in InFlight : q.method = "DELETE" =>
          /\ q.hit = "own"
          /\ q.transport \in 1..Len(tr)
          /\ tr[q.transport].sessionId = q.sid
    /\ (last.method = "DELETE" /\ last.pc = "done" /\ closeEv.t # Undefined) =>
          /\ closeEv.t = last.transport
          /\ closeEv.sid = last.sid
          /\ last.sid \notin DOMAIN transports
          /\ removals[last.sid] = 1
          /\ \A k \in DOMAIN closeEv.before \ {last.sid} :
                k \in DOMAIN transports /\ transports[k] = closeEv.before[k]
    /\ \A k \in DOMAIN removals : removals[k] <= 1

\* A DELETE closed its session and removed the entry while another session
\* stays registered.
C7_Witness ==
    /\ last.method = "DELETE" /\ last.pc = "done"
    /\ closeEv.t # Undefined
    /\ closeEv.t = last.transport
    /\ last.sid \in DOMAIN closeEv.before
    /\ removals[last.sid] = 1
    /\ DOMAIN transports # {}

\* C8: after a session was created by an init POST and terminated by DELETE,
\* a POST with the stale identifier and a non-initialization body is answered
\* 400 / -32000 at once and creates no session.
C8_StaleSessionRejected ==
    /\ (last.method = "POST" /\ last.stale /\ ~last.init) =>
          /\ last.resp = <<BadRequestResp>>
          /\ last.created = Undefined
          /\ last.inserted = 0
    /\ \A q \in InFlight : ~(q.method = "POST" /\ q.stale /\ ~q.init)

\* A stale identifier was presented and rejected.
C8_Witness ==
    /\ last.method = "POST" /\ last.stale /\ ~last.init
    /\ last.resp = <<BadRequestResp>>
    /\ \E t \in 1..Len(tr) : tr[t].sessionId = last.sid /\ tr[t].closedBy = "DELETE"

\* C9 (as claimed): a GET /mcp is handed to a transport only when its header
\* matches a table entry, and then to that entry's transport; when the header
\* is missing or matches no entry the answer is 400 with a plain-text body
\* and no transport is invoked.
C9_GetNeedsKnownSession ==
    /\ \A q \in InFlight : q.method = "GET" =>
          /\ q.hit = "own"
          /\ q.transport \in 1..Len(tr)
          /\ tr[q.transport].sessionId = q.sid
    /\ (last.method = "GET" /\ last.hit # "own") =>
          /\ last.resp = <<InvalidSessionResp>>
          /\ last.transport = Undefined

\* C10: an exception while resolving, creating or routing a POST /mcp: raised
\* before any response header was sent, the answer is 500 with the -32603
\* envelope; raised after the headers were sent, no second response is
\* started.  Every POST has exactly one response started.
C10_PostErrorAnsweredOnce ==
    last.method = "POST" =>
       /\ Len(last.resp) = 1
       /\ last.threw = "early" => last.resp = <<InternalErrorResp>>
       /\ last.threw = "late" => last.resp[1].by = "transport"
       /\ last.resp[1] = InternalErrorResp => last.threw = "early"

\* The transport threw after it had started the response of a POST.
C10_Witness ==
    /\ last.method = "POST"
    /\ last.threw = "late"
    /\ last.resp = <<TransportResp(200)>>

\* C11: when a run of the SIGINT handler has exited, the exit code is 0 and
\* every transport whose identifier was assigned before that run started
\* has had a close attempted on it (it is closed, or its close() threw and
\* was logged): a close() that throws does not end the loop.
C11_ShutdownAttemptsEveryClose ==
    \A i \in 1..Len(sig) :
       sig[i].pc = "exited" =>
          /\ proc = "exit0"
          /\ \A t \in 1..Len(tr) :
                tr[t].sessionId \in 1..sig[i].start
                   => (Closed(t) \/ tr[t].closedBy = "failed")

\* The handler exited after the close() of an earlier key threw and the
\* close() of a later key, in the table when the handler started, ran.
C11_Witness ==
    /\ proc = "exit0"
    /\ \E t1, t2 \in 1..Len(tr) :
          /\ tr[t1].sessionId >= 1
          /\ tr[t1].sessionId < tr[t2].sessionId
          /\ \E i \in 1..Len(sig) :
                /\ sig[i].pc = "exited"
                /\ tr[t2].sessionId <= sig[i].start
          /\ tr[t1].closedBy = "failed"
          /\ tr[t2].closedBy = "other"

\* C12: when the SIGINT handler reaches process.exit the session table is
\* empty, also for sessions whose close() threw.
C12_TableEmptyAtExit ==
    proc = "exit0" => DOMAIN transports = {}

\* C13: at process exit every transport that was registered in the session
\* table is closed, also one registered while the handler awaited the
\* close() of another transport (a transport whose close() threw aside).
C13_NoDanglingTransport ==
    proc = "exit0" =>
       \A t \in 1..Len(tr) :
          (tr[t].sessionId # Undefined /\ tr[t].closedBy # "failed")
             => Closed(t)

\* C14: a POST of an existing session is handed to the transport of its
\* table entry in the step in which it arrives: no such request is ever
\* found waiting between lookup and hand-off, so the transport receives the
\* POSTs of a session in their order of arrival.
C14_DelegatesInArrivalOrder ==
    \A q \in InFlight :
       (q.method = "POST" /\ q.created = Undefined)
          => /\ q.pc = "inTransport"
             /\ q.hit = "own"
             /\ tr[q.transport].sessionId = q.sid

\* Two POSTs of the same session are with its transport at the same time.
C14_Witness ==
    \E q1, q2 \in InFlight :
       /\ q1.method = "POST" /\ q2.method = "POST"
       /\ q1.created = Undefined /\ q2.created = Undefined
       /\ q1.sid >= 1 /\ q1.sid = q2.sid
       /\ q1.pc = "inTransport" /\ q2.pc = "inTransport"
       /\ (q1 # q2 \/ CopiesIn(q1, reqs) >= 2)

\* C15: while a POST of one session is held by its transport (the handler
\* is suspended at its await, as it is for a request that carries a tool
\* call), the suspended requests of other sessions can complete and, within the bounds
\* of the model, new requests of other sessions (init POST, POST, GET,
\* DELETE) can be accepted.
C15_OtherSessionsProgress ==
    (proc = "running" /\ last = NoLast /\ closeEv = NoClose)
       => \A q \in InFlight :
             HeldInTransport(q)
                => /\ \A q2 \in InFlight :
                         (q2.sid # q.sid /\ q2.pc = "inTransport")
                            => CASE q2.method = "POST" ->
                                       ENABLED TransportHandlePost(q2, "ok")
                                 [] q2.method = "GET" ->
                                       ENABLED TransportHandleGet(q2, "ok", FALSE)
                                 [] OTHER ->
                                       ENABLED TransportHandleDelete(q2, "ok", FALSE)
                   /\ \A q2 \in InFlight :
                         q2.pc = "connect" => ENABLED PostConnect(q2, TRUE)
                   /\ BagCardinality(reqs) < MaxInFlight
                         => /\ \A h \in (1..uuids) \ {q.sid} :
                                  /\ ENABLED PostMcp(h, FALSE)
                                  /\ ENABLED GetMcp(h, FALSE)
                                  /\ ENABLED DeleteMcp(h, FALSE)
                            /\ Len(tr) < MaxTransports
                                  => ENABLED PostMcp(NoHeader, TRUE)

\* A request of another session has just been completed by its transport
\* while a POST of the first session is still held by its transport.
C15_Witness ==
    \E q \in InFlight :
       /\ HeldInTransport(q)
       /\ last # NoLast
       /\ last.sid # q.sid
       /\ last.transport \in 1..Len(tr)
       /\ last.resp = <<TransportResp(200)>>

\* C16: every step changes at most one entry of the session table; an
\* insertion adds a key that was absent, for the transport of the init POST
\* that is accepted in that step, and leaves every other entry as it was; a
\* deletion removes the entry of the transport whose close callback runs in
\* that step.
C16_TableMutationsAtomic ==
    [][LET changed ==
               {k \in DOMAIN transports \cup DOMAIN transports' :
                   \/ k \notin DOMAIN transports
                   \/ k \notin DOMAIN transports'
                   \/ transports[k] # transports'[k]}
       IN /\ Cardinality(changed) <= 1
          /\ \A k \in changed :
                IF k \in DOMAIN transports'
                THEN /\ k \notin DOMAIN transports
                     /\ last'.method = "POST"
                     /\ last'.inserted = 1
                     /\ transports'[k] = last'.created
                ELSE /\ closeEv'.t # Undefined
                     /\ closeEv'.sid = k
                     /\ transports[k] = closeEv'.t]_vars

\* Two init POSTs were suspended at the connect step together and the one
\* that arrived first was accepted second: each has its own entry.
C16_Witness ==
    /\ last # NoLast
    /\ last.method = "POST"
    /\ last.inserted = 1
    /\ last.created = 1
    /\ Len(tr) >= 2
    /\ tr[1].sessionId = 2
    /\ tr[2].sessionId = 1
    /\ DOMAIN transports = {1, 2}
    /\ transports[1] = 2
    /\ transports[2] = 1

\* C17: a call of ai_search_structured or ai_search_unstructured whose
\* query is missing or empty ends with an InvalidParams protocol error and
\* sends nothing upstream, in every entry point, client bound or not.
C17_EmptyQueryInvalidParams ==
    (/\ call.pc \in {"upstream", "probe", "done"}
     /\ call.name \in {"ai_search_structured", "ai_search_unstructured"}
     /\ QueryFalsy(call.args))
       => /\ call.pc = "done"
          /\ call.result = <<McpError("InvalidParams", <<"query is required">>)>>
          /\ call.sent = << >>

\* C18: the request ai_search_unstructured sends upstream has a fileOnly
\* field exactly when the caller gave one, with the caller's value.
C18_FileOnlyRoundTrips ==
    (/\ call.pc \in {"upstream", "done"}
     /\ call.name = "ai_search_unstructured"
     /\ call.sent # << >>)
       => /\ Has(call.sent[1], "fileOnly") <=> Has(call.args, "fileOnly")
          /\ Has(call.args, "fileOnly")
                => call.sent[1].fileOnly = call.args.fileOnly

\* C19: validate_connection always ends with a text result, never with a
\* protocol error: without a client the text says so and nothing is sent
\* upstream; with a client the failure text follows a failed probe and the
\* success text only a probe that succeeded.
C19_ValidateConnectionNeverThrows ==
    (call.pc = "done" /\ call.name = "validate_connection")
       => /\ call.result[1].kind = "result"
          /\ ~call.bound
                => /\ call.result = <<TextResult("validateUnbound")>>
                   /\ call.sent = << >>
          /\ (call.bound /\ call.reply \in UpstreamFailures)
                => call.result = <<TextResult("validateFailed")>>
          /\ call.result = <<TextResult("validateOk")>>
                => (call.bound /\ call.reply = "ok")

\* validate_connection has ended after its probe failed.
C19_Witness ==
    /\ call.pc = "done"
    /\ call.name = "validate_connection"
    /\ call.bound
    /\ call.sent = <<probeRequest>>
    /\ call.reply = "noResponse"
    /\ call.result = <<TextResult("validateFailed")>>

\* C20: a call whose name is none of the three tools ends with a
\* MethodNotFound protocol error and sends nothing upstream, client bound
\* or not.
C20_UnknownToolMethodNotFound ==
    (call.pc \in {"upstream", "probe", "done"} /\ call.name \in OtherNames)
       => /\ call.pc = "done"
          /\ call.result =
                <<McpError("MethodNotFound", <<"Unknown tool", call.name>>)>>
          /\ call.sent = << >>

\* C21: a search tool whose upstream call failed ends with an InternalError
\* protocol error whose message carries the message of the failure, and an
\* McpError thrown during dispatch reaches the caller with its code and
\* message as thrown.
C21_UpstreamFailureInternalError ==
    (call.pc = "done"
     /\ call.name \in {"ai_search_structured", "ai_search_unstructured"})
       => /\ (call.reply \in UpstreamFailures /\ ~QueryFalsy(call.args))
                => call.result =
                      <<McpError("InternalError",
                                 <<"Error executing", call.name,
                                   handleError(AxiosErrorOf(call.reply)).message>>)>>
          /\ (call.reply = "none" /\ call.result[1].kind = "error"
              /\ call.variant # "mcpserver")
                => call.result =
                      <<McpError("InvalidParams", <<"query is required">>)>>

\* C22: with no upstream client bound, a call of any tool other than
\* validate_connection ends at once with the client-not-initialized text as
\* its result: no protocol error, nothing sent upstream.
C22_UnboundClientTextResult ==
    (call.pc \in {"upstream", "probe", "done"}
     /\ ~call.bound /\ call.name # "validate_connection")
       => /\ call.pc = "done"
          /\ call.result = <<TextResult("notInitialized")>>
          /\ call.sent = << >>

\* A search with a usable query has ended at a server without a client.
C22_Witness ==
    /\ call.pc = "done"
    /\ ~call.bound
    /\ call.name = "ai_search_unstructured"
    /\ ~QueryFalsy(call.args)
    /\ call.result = <<TextResult("notInitialized")>>

\* C28: every tool call ends, and stays ended, with exactly one outcome: a
\* text result (success payload or failure text) or a protocol error with
\* code InvalidParams, MethodNotFound or InternalError.
C28_ToolCallTerminates ==
    <>[](/\ call.pc = "done"
         /\ Len(call.result) = 1
         /\ \/ call.result[1].kind = "result"
            \/ /\ call.result[1].kind = "error"
               /\ call.result[1].code \in
                     {"InvalidParams", "MethodNotFound", "InternalError"})

\* A search has ended with InternalError after the upstream did not answer.
C28_Witness ==
    /\ call.pc = "done"
    /\ call.sent # << >>
    /\ call.reply = "noResponse"
    /\ Len(call.result) = 1
    /\ call.result[1].kind = "error"
    /\ call.result[1].code = "InternalError"

\* C23: the configuration of an initializing request comes from the direct
\* query fields when they supply one, else from the JSON `config` field when
\* it supplies one; the default client is used exactly when neither does.
C23_ResolutionOrder ==
    (resolved.pc = "done" /\ boot.pc = "http")
       => LET q == resolved.query
              directSupplies == StrTruthy(Get(q, "MCP_KEY"))
              jsonSupplies == /\ Has(q, "config")
                              /\ q.config.kind = "object"
                              /\ StrTruthy(Get(q.config.value, "MCP_KEY"))
          IN  /\ resolved.usedDefault <=> ~(directSupplies \/ jsonSupplies)
              /\ directSupplies => resolved.source = "direct"
              /\ (~directSupplies /\ jsonSupplies) => resolved.source = "json"

\* C24: the cache holds at most one client per (host, key); resolutions of
\* the same resolved host and key return the same instance; a client is
\* constructed only at the first resolution of its pair; an entry of the
\* cache is never replaced or removed.
C24_CacheOneClientPerPair ==
    /\ [](\A a, b \in served :
             (a.host = b.host /\ a.mcpKey = b.mcpKey) => a.client = b.client)
    /\ [](\A j, k \in DOMAIN mcpClients :
             clients[mcpClients[j]] = clients[mcpClients[k]]
                => mcpClients[j] = mcpClients[k])
    /\ [][/\ \A k \in DOMAIN mcpClients :
                k \in DOMAIN mcpClients' /\ mcpClients'[k] = mcpClients[k]
          /\ SubSeq(clients', 1, Len(clients)) = clients
          /\ resolved'.constructed
                => ~\E a \in served :
                       GptMcpClient(a.host, <<a.mcpKey>>) = clients'[resolved'.client]
         ]_vars

\* A resolution was served from the cache while the cache held two clients.
C24_Witness ==
    /\ resolved.pc = "done"
    /\ ~resolved.usedDefault
    /\ ~resolved.constructed
    /\ Cardinality(DOMAIN mcpClients) >= 2

\* C25: a configured host that is absent or does not parse as an http or
\* https URL gives the default host, and a host that passes validation is
\* used as it is: for the default client built from the environment and for
\* every resolution of a configuration with a key.
C25_InvalidHostFallsBack ==
    LET NotHttpUrl(h) == \/ ~StrTruthy(h)
                         \/ ~URLParses(h[1])
                         \/ URLProtocol(h[1]) \notin {<<"http", ":">>, <<"https", ":">>}
        Rule(h, bound) == /\ NotHttpUrl(h) => bound = DEFAULT_API_HOST
                          /\ isValidUrl(h) => bound = h[1]
    IN  /\ (boot.pc = "http" /\ defaultMcpClient # 0)
              => Rule(Get(env.vars, "AXYS_API_HOST"), clients[defaultMcpClient].host)
        /\ (resolved.pc = "done" /\ resolved.apiHost # << >>)
              => /\ Rule(IF resolved.source = "direct"
                         THEN Get(resolved.query, "AXYS_API_HOST")
                         ELSE Get(resolved.query.config.value, "AXYS_API_HOST"),
                         resolved.apiHost[1])
                 /\ resolved.constructed
                       => clients[resolved.client].host = resolved.apiHost[1]

\* A client was built for the host 'string' and is bound to the default host.
C25_Witness ==
    /\ resolved.pc = "done"
    /\ resolved.constructed
    /\ resolved.source = "direct"
    /\ Get(resolved.query, "AXYS_API_HOST") = << <<"string">> >>
    /\ clients[resolved.client].host = DEFAULT_API_HOST

\* C26: started in stdio mode without MCP_KEY, the process has exited with
\* code 1 as soon as main() has run: no client was constructed, no probe
\* was sent, the stdio transport was not connected.
C26_StdioWithoutKeyExits ==
    (STDIO_MODE(env) /\ ~StrTruthy(Get(env.vars, "MCP_KEY")) /\ boot.pc # "main")
       => /\ boot.pc = "exited"
          /\ boot.exitCode = 1
          /\ clients = << >>
          /\ defaultMcpClient = 0
          /\ boot.probes = 0
          /\ ~boot.connected

\* MCP_TRANSPORT=stdio without MCP_KEY: the process has exited with code 1.
C26_Witness ==
    /\ Get(env.vars, "MCP_TRANSPORT") = << <<"stdio">> >>
    /\ ~Has(env.vars, "MCP_KEY")
    /\ boot.pc = "exited"
    /\ boot.exitCode = 1

\* C27: a tool call that awaits the upstream is not cancelled when its
\* session's transport closes (the client went away, or the session was
\* terminated by DELETE): the step of the closure leaves the call as it is,
\* and a call that went upstream ends only with the upstream's answer, its
\* error or the missing response (the timeout among them).  When the call
\* ends after the transport has closed, the handler ends with a result or a
\* protocol error, the step leaves the session table as it was, and the
\* process runs on; a POST of that session whose handler ends after the
\* closure ends normally too.
C27_UpstreamCallNotCancelled ==
    /\ [][(/\ call.pc \in {"upstream", "probe"}
           /\ closeEv'.t = call.transport
           /\ httpVars' # httpVars)
            => call' = call]_vars
    /\ []((call.pc = "done" /\ call.sent # << >>)
            => call.reply \in UpstreamOutcomes)
    /\ [][(/\ call.pc \in {"upstream", "probe"}
           /\ call'.pc = "done"
           /\ Closed(call.transport))
            => /\ transports' = transports
               /\ insertLog' = insertLog
               /\ proc' = "running"
               /\ call'.result # << >>
               /\ call'.result[1].kind \in {"result", "error"}]_vars
    /\ []((/\ last.method = "POST"
           /\ last.created = Undefined
           /\ ~last.init
           /\ last.transport \in 1..Len(tr)
           /\ Closed(last.transport))
            => /\ last.pc = "done"
               /\ proc = "running")

\* A search went upstream, its session was terminated by DELETE while the
\* request was in flight, and the upstream's answer then ended the call.
C27_Witness ==
    /\ call.pc = "done"
    /\ call.name = "ai_search_structured"
    /\ call.sent # << >>
    /\ call.reply = "ok"
    /\ call.result = <<TextResult("searchResult")>>
    /\ tr[call.transport].closedBy = "DELETE"
    /\ proc = "running"

\* C29: no exception raised while a /mcp request is handled escapes the
\* handler: every request ends with an outcome its handler produced and the
\* process is not ended by it.
C29_NoUncaughtException ==
    /\ last.method \in {"POST", "GET", "DELETE"} => last.pc # "unhandled"
    /\ proc # "crashed"

\* C30: GET /.well-known/mcp-config is answered in the turn it arrives in,
\* whatever the session table holds, with status 200 and a schema whose
\* required list is exactly AXYS_API_HOST and MCP_KEY; the step leaves the
\* session table, the transports and the suspended requests as they were.
C30_WellKnownSchema ==
    /\ [](last.method = "GET /.well-known/mcp-config"
            => /\ last.pc = "done"
               /\ Len(last.resp) = 1
               /\ last.resp[1].status = 200
               /\ last.resp[1].required = {"AXYS_API_HOST", "MCP_KEY"})
    /\ [][last'.method = "GET /.well-known/mcp-config"
            => UNCHANGED <<transports, tr, reqs, insertLog, removals>>]_vars

\* The schema was served while a session was in the table and a request of
\* it was suspended.
C30_Witness ==
    /\ last.method = "GET /.well-known/mcp-config"
    /\ last.resp[1].required = {"AXYS_API_HOST", "MCP_KEY"}
    /\ DOMAIN transports # {}
    /\ reqs # EmptyBag

\* C31 (as claimed): every key of the session table is an identifier the
\* generator produced and onsessioninitialized delivered, and a POST, GET or
\* DELETE is treated as matching an entry (a value is taken from the table
\* for its header) only when its header is such an identifier.
C31_OnlyAssignedIdentifiersMatch ==
    LET assigned == {insertLog[i] : i \in 1..Len(insertLog)}
        routed == InFlight \cup
                     (IF last.method \in {"POST", "GET", "DELETE"}
                      THEN {last} ELSE {})
    IN  /\ DOMAIN transports \subseteq assigned
        /\ assigned \subseteq 1..uuids
        /\ \A r \in routed :
              (r.created = Undefined /\ r.transport # Undefined)
                 => r.sid \in assigned

\* The lifecycle state of the session of transport t: 0 pending (no
\* identifier yet), 1 active, 2 closed.
LifecycleRank(t) ==
    IF Closed(t) THEN 2 ELSE IF tr[t].sessionId = Undefined THEN 0 ELSE 1

\* C32 (as claimed): the lifecycle of a session only moves forward, pending
\* -> active -> closed; its identifier does not change once assigned; an identifier that
\* was removed from the session table is never a key of it again; and a
\* closed session has no entry and gets none.
C32_LifecycleForwardOnly ==
    /\ [][/\ \A t \in 1..Len(tr) :
                /\ Len(tr') >= Len(tr)
                /\ LifecycleRank(t)' >= LifecycleRank(t)
                /\ tr[t].sessionId # Undefined
                      => tr'[t].sessionId = tr[t].sessionId
          /\ \A k \in DOMAIN removals :
                (removals[k] >= 1 /\ k \notin DOMAIN transports)
                   => k \notin DOMAIN transports'
          /\ \A k \in DOMAIN transports :
                k \notin DOMAIN transports' => removals'[k] >= 1]_vars
    /\ [](\A t \in 1..Len(tr) :
             Closed(t) => /\ EntriesOf(t) = {}
                          /\ tr[t].sessionId \notin DOMAIN transports)

\* C34 (as claimed): a POST /mcp that carries an mcp-session-id header for
\* which the table lookup finds nothing, with an initialization body, is
\* answered 400 / -32000 in the turn it arrives in: no transport is created
\* for it and nothing is inserted into the table.  (A header the lookup
\* finds an inherited property for is the case of C31.)
C34_InitWithUnknownHeaderRejected ==
    LET Case(r) == /\ r.method = "POST"
                   /\ r.init
                   /\ r.sid # NoHeader
                   /\ r.hit = "miss"
    IN  /\ \A q \in InFlight : ~Case(q)
        /\ (last.method = "POST" /\ Case(last))
              => /\ last.resp = <<BadRequestResp>>
                 /\ last.created = Undefined
                 /\ last.inserted = 0

\* C35 (as claimed): when an initializing POST has ended in the catch block
\* (answered 500 / -32603, or only logged because the response had been
\* started), the session table holds no entry for the transport that
\* request created.
C35_FailedInitLeavesNoEntry ==
    (/\ last.method = "POST"
     /\ last.sid = NoHeader
     /\ last.created # Undefined
     /\ last.threw # "no")
       => /\ EntriesOf(last.created) = {}
          /\ last.inserted = 0

\* C37 (as claimed): the client a resolution with a key returns is bound to
\* that resolution's host and key, and two resolutions that differ in host
\* or in key never got the same client.
C37_ClientBoundToItsPair ==
    /\ \A a \in served :
          /\ clients[a.client].host = a.host
          /\ clients[a.client].mcpKey = <<a.mcpKey>>
    /\ \A a, b \in served :
          a.client = b.client => (a.host = b.host /\ a.mcpKey = b.mcpKey)

\* C33: the server instance of a session keeps the client that was resolved
\* for its initializing request: no later step changes the client of an
\* existing server instance or that client's host and key; and a step that
\* creates no session (a POST, GET or DELETE of an existing session among
\* them, whatever its query string carries) leaves the cache, the clients
\* and the server instances as they were and inserts into the table only
\* the transport of an initializing request that is being completed.
C33_SessionKeepsItsClient ==
    [][/\ \A t \in DOMAIN servers :
             /\ t \in DOMAIN servers'
             /\ mcpClientOf(t)' = mcpClientOf(t)
             /\ mcpClientOf(t) # 0
                   => clients'[mcpClientOf(t)] = clients[mcpClientOf(t)]
       /\ Len(tr') > Len(tr)
             => /\ resolved'.pc = "done"
                /\ DOMAIN servers' = DOMAIN servers \cup {Len(tr')}
                /\ servers'[Len(tr')] = resolved'.client
       /\ Len(tr') = Len(tr)
             => /\ mcpClients' = mcpClients
                /\ clients' = clients
                /\ defaultMcpClient' = defaultMcpClient
                /\ servers' = servers
                /\ \A k \in DOMAIN transports' \ DOMAIN transports :
                      /\ last'.method = "POST"
                      /\ last'.created = transports'[k]]_vars

\* A POST of an established session whose client has the key k carried the
\* key 8:k in its query string: it was handed to the session's transport
\* and no client with that key exists.
C33_Witness ==
    /\ resolved.pc = "parsed"
    /\ Get(resolved.query, "MCP_KEY") = << <<"8", ":", "k">> >>
    /\ \A i \in 1..Len(clients) : clients[i].mcpKey # << <<"8", ":", "k">> >>
    /\ \E q \in InFlight :
          /\ q.method = "POST"
          /\ q.created = Undefined
          /\ q.pc = "inTransport"
          /\ q.transport \in DOMAIN servers
          /\ mcpClientOf(q.transport) # 0
          /\ clients[mcpClientOf(q.transport)].mcpKey = << <<"k">> >>

\* C36: a step in which the multiplexer itself answers a POST, GET or DELETE
\* with status 400 leaves the session table, the transports, the client
\* cache, the clients and the server instances as they were.
C36_RejectionChangesNothing ==
    [][(/\ last = NoLast
        /\ last'.method \in {"POST", "GET", "DELETE"}
        /\ last'.resp \in {<<BadRequestResp>>, <<InvalidSessionResp>>})
          => /\ UNCHANGED <<transports, tr, uuids, reqs>>
             /\ mcpClients' = mcpClients
             /\ clients' = clients
             /\ defaultMcpClient' = defaultMcpClient
             /\ servers' = servers]_vars

\* A POST with an unknown identifier and a key no client exists for was
\* answered 400 while a session was in the table.
C36_Witness ==
    /\ last.method = "POST"
    /\ last.sid = UnknownHeader
    /\ last.resp = <<BadRequestResp>>
    /\ resolved.pc = "parsed"
    /\ Get(resolved.query, "MCP_KEY") = << <<"k">> >>
    /\ \A i \in 1..Len(clients) : clients[i].mcpKey # << <<"k">> >>
    /\ DOMAIN transports # {}

\* C38: the request ai_search_unstructured sends upstream has a
\* searchIndices field exactly when the caller gave a non-empty string, with
\* the caller's value (omitted or empty: no field), and it always has the
\* caller's query and searchType 'unstructured'.
C38_SearchIndicesForwardedWhenNonEmpty ==
    (/\ call.pc \in {"upstream", "done"}
     /\ call.name = "ai_search_unstructured"
     /\ call.sent # << >>)
       => /\ Has(call.sent[1], "searchIndices")
                <=> (Has(call.args, "searchIndices")
                     /\ call.args.searchIndices # "")
          /\ Has(call.sent[1], "searchIndices")
                => call.sent[1].searchIndices = call.args.searchIndices
          /\ Has(call.sent[1], "query")
          /\ call.sent[1].query = call.args.query
          /\ Has(call.sent[1], "searchType")
          /\ call.sent[1].searchType = "unstructured"

\* A search was sent upstream for a caller who gave the empty string as
\* searchIndices and a value for fileOnly: the request has no searchIndices.
C38_Witness ==
    /\ call.pc = "upstream"
    /\ call.variant = "index"
    /\ call.name = "ai_search_unstructured"
    /\ Has(call.args, "searchIndices")
    /\ call.args.searchIndices = ""
    /\ Has(call.args, "fileOnly")
    /\ call.sent = <<[query |-> "deployment", searchType |-> "unstructured",
                      fileOnly |-> call.args.fileOnly]>>

\* C39 (as claimed): a failed upstream call makes aiSearch throw an Error of
\* one of three kinds, chosen in this order: a response was received: 'GPT
\* MCP API Error: <message> (Status: <status>)' with the message and status
\* of the body, or 'Unknown error' and the HTTP status in their place; no
\* response was received: 'No response received from GPT MCP API'; else:
\* 'Request setup error: <message>'.  validateConnection alone turns the
\* failure into the value false.
C39_FailureIsOneOfThreeErrors ==
    (call.pc = "done" /\ call.error # << >>)
       => LET e == call.error[1]
              body == e.response[1].data.value
              expected ==
                 IF e.response # << >>
                 THEN <<"GPT MCP API Error: ",
                        IF Has(body, "message") /\ body.message # ""
                        THEN body.message ELSE "Unknown error",
                        " (Status: ",
                        IF Has(body, "status") /\ body.status # "0"
                        THEN body.status ELSE e.response[1].status,
                        ")">>
                 ELSE IF e.request
                 THEN <<"No response received from GPT MCP API">>
                 ELSE <<"Request setup error: ", e.message>>
          IN  IF call.op = "aiSearch"
              THEN call.outcome = <<Thrown(PlainError(expected))>>
              ELSE call.outcome = <<Returned(FALSE)>>
====
